---- MODULE Spec2Model ----
(***************************************************************************)
(* Events alerts: deduplication and delivery tracking                      *)
(* (src/src/events_alerts.py).                                             *)
(*                                                                         *)
(* The tracking file SENT_EVENTS_FILE, the temporary file of               *)
(* save_sent_events and the locals of main() are the state.  main() is     *)
(* followed statement group by statement group (pc); save_sent_events is   *)
(* followed step by step (mkstemp, write, move) so that a failure or a     *)
(* crash can hit between any two steps.                                    *)
(*                                                                         *)
(* Time is an integer number of ticks.  A timestamp string is the record   *)
(* [valid, t]: isoformat() produces a valid one, fromisoformat() reads the *)
(* instant back or raises on an invalid one.  JSON object keys are         *)
(* strings: str() and int() convert between ids and keys.                  *)
(***************************************************************************)
EXTENDS Integers, Sequences, FiniteSets, TLC

(* ---------------------------- bounds ----------------------------------- *)
MaxId == 2
MaxTime == 2
MaxWindow == 2
MaxCand == 5
MaxLen == 3

Ids == 1..MaxId

(* ---------------------------- helpers ---------------------------------- *)
Range(s) == {s[i] : i \in 1..Len(s)}

EmptyDict == [k \in {} |-> 0]

RECURSIVE SetToSeq(_)
SetToSeq(S) ==
    IF S = {} THEN <<>>
    ELSE LET m == CHOOSE x \in S : \A y \in S : x <= y
         IN  <<m>> \o SetToSeq(S \ {m})

\* (variant) the selected rows come out in reverse order
RECURSIVE SelectRows_reversed(_, _)
SelectRows_reversed(rows, keep) ==
    IF rows = <<>> THEN <<>>
    ELSE IF Head(rows).id \in keep
         THEN SelectRows_reversed(Tail(rows), keep) \o <<Head(rows)>>
         ELSE SelectRows_reversed(Tail(rows), keep)

\* the rows whose id is in keep, in their order
RECURSIVE SelectRows(_, _)
SelectRows(rows, keep) ==
    IF rows = <<>> THEN <<>>
    ELSE IF Head(rows).id \in keep
         THEN <<Head(rows)>> \o SelectRows(Tail(rows), keep)
         ELSE SelectRows(Tail(rows), keep)

(* ---------------- timestamps and JSON keys ----------------------------- *)
\* datetime.isoformat(): the string of an aware instant
isoformat(t) == [valid |-> TRUE, t |-> t]

\* a string datetime.fromisoformat() rejects (ValueError)
InvalidTimestamp == [valid |-> FALSE, t |-> 0]

\* (variant) every string parses
fromisoformat_raises_never(s) == FALSE

\* datetime.fromisoformat(): raises on a string that is not an ISO timestamp
fromisoformat_raises(s) == ~s.valid
fromisoformat(s) == s.t

\* str(k) for an integer id
str(k) == ToString(k)

\* a JSON key that int() rejects
NonIntKey == "abc"

\* int(k) for a JSON key: raises ValueError unless the key is a decimal
int_raises(k) == \A i \in Ids : str(i) # k
int(k) == CHOOSE i \in Ids : str(i) = k

(* ---------------- the tracking file ------------------------------------ *)
\* kind: "missing" (no file), "badjson" (not a JSON document, e.g. a
\* truncated one), "notdict" (JSON whose top level is not an object),
\* "dict" (a JSON object with the top-level keys `keys`).
\* The value of last_updated is written but never read back: only the
\* presence of the key is kept.
FileOf(kind, keys, se, ids) ==
    [kind |-> kind, keys |-> keys, sent_events |-> se, sent_event_ids |-> ids]

MissingFile == FileOf("missing", {}, EmptyDict, <<>>)
BadJsonFile == FileOf("badjson", {}, EmptyDict, <<>>)
NotDictFile == FileOf("notdict", {}, EmptyDict, <<>>)

\* (variant) the document is written in the legacy format, ids only
SavedDocument_legacy(sent) ==
    FileOf("dict", {"sent_event_ids", "last_updated"},
           EmptyDict, SetToSeq(DOMAIN sent))

\* the document save_sent_events serialises for the dict sent_events
SavedDocument(sent) ==
    FileOf("dict", {"sent_events", "last_updated"},
           [k \in {str(i) : i \in DOMAIN sent} |-> sent[int(k)]], <<>>)

\* cutoff_date of load_sent_events
cutoff_date(now, days) == now - days

\* (variant) no entry ever expires
KeepEntry_always(event_timestamp, cutoff) == TRUE

\* (variant) the comparison is strict
KeepEntry_strict(event_timestamp, cutoff) == event_timestamp > cutoff

\* the retention test of the pruning loop
KeepEntry(event_timestamp, cutoff) == event_timestamp >= cutoff

\* (variant) the legacy list is read whenever the file has one, whatever the
\* sent_events mapping holds
LoadParse_legacy_first(f, now, days) ==
    IF f.kind \in {"badjson", "notdict"}
    THEN [raised |-> TRUE, filtered_events |-> EmptyDict, removed_count |-> 0]
    ELSE
    LET data_sent_events ==
            IF "sent_events" \in f.keys THEN f.sent_events ELSE EmptyDict
        sent_events_data ==
            IF "sent_event_ids" \in f.keys
            THEN [k \in {str(i) : i \in Range(f.sent_event_ids)} |-> isoformat(now)]
            ELSE data_sent_events
    IN  IF \E k \in DOMAIN sent_events_data : int_raises(k)
        THEN [raised |-> TRUE, filtered_events |-> EmptyDict, removed_count |-> 0]
        ELSE
        LET loaded == [i \in {int(k) : k \in DOMAIN sent_events_data}
                          |-> sent_events_data[str(i)]]
            kept == {i \in DOMAIN loaded :
                        /\ ~fromisoformat_raises(loaded[i])
                        /\ KeepEntry(fromisoformat(loaded[i]),
                                     cutoff_date(now, days))}
        IN  [raised |-> FALSE,
             filtered_events |-> [i \in kept |-> loaded[i]],
             removed_count |-> Cardinality(DOMAIN loaded \ kept)]

\* body of the try block of load_sent_events up to the pruning loop's end:
\* raised (an exception reached one of the except clauses), filtered_events,
\* removed_count
LoadParse(f, now, days) ==
    IF f.kind \in {"badjson", "notdict"}
    THEN [raised |-> TRUE, filtered_events |-> EmptyDict, removed_count |-> 0]
    ELSE
    LET data_sent_events ==
            IF "sent_events" \in f.keys THEN f.sent_events ELSE EmptyDict
        sent_events_data ==
            IF DOMAIN data_sent_events = {} /\ "sent_event_ids" \in f.keys
            THEN [k \in {str(i) : i \in Range(f.sent_event_ids)} |-> isoformat(now)]
            ELSE data_sent_events
    IN  IF \E k \in DOMAIN sent_events_data : int_raises(k)
        THEN [raised |-> TRUE, filtered_events |-> EmptyDict, removed_count |-> 0]
        ELSE
        LET loaded == [i \in {int(k) : k \in DOMAIN sent_events_data}
                          |-> sent_events_data[str(i)]]
            kept == {i \in DOMAIN loaded :
                        /\ ~fromisoformat_raises(loaded[i])
                        /\ KeepEntry(fromisoformat(loaded[i]),
                                     cutoff_date(now, days))}
        IN  [raised |-> FALSE,
             filtered_events |-> [i \in kept |-> loaded[i]],
             removed_count |-> Cardinality(DOMAIN loaded \ kept)]

(* ---------------- data frames ------------------------------------------ *)
\* a DataFrame: its column names and its rows in order
DataFrame(columns, rows) == [columns |-> columns, rows |-> rows]

empty(d) == d.rows = <<>>

required_columns == {"id", "event_name", "created_at", "email"}

\* (variant) no frame is rejected
validate_raises_never(d, required) == FALSE

\* validate_dataframe_columns: TRUE when it raises ValueError
validate_raises(d, required) ==
    ~empty(d) /\ (required \ d.columns) # {}

\* (variant) rows are matched against the store whatever the columns
filter_unsent_events_any_columns(d, sent) ==
    DataFrame(d.columns,
              SelectRows(d.rows, {r.id : r \in Range(d.rows)} \ DOMAIN sent))

\* (variant) isin without the negation: the tracked rows are the ones kept
filter_unsent_events_tracked(d, sent) ==
    DataFrame(d.columns,
              SelectRows(d.rows, {r.id : r \in Range(d.rows)} \cap DOMAIN sent))

\* (variant) nothing is filtered out
filter_unsent_events_none(d, sent) == d

\* filter_unsent_events(df, sent_events)
filter_unsent_events(d, sent) ==
    IF empty(d) THEN d
    ELSE IF "id" \notin d.columns THEN d
    ELSE DataFrame(d.columns,
                   SelectRows(d.rows, {r.id : r \in Range(d.rows)} \ DOMAIN sent))


\* one character folded to lower case
lower_char(c) ==
    CASE c = "A" -> "a"
      [] c = "B" -> "b"
      [] c = "C" -> "c"
      [] c = "D" -> "d"
      [] c = "E" -> "e"
      [] c = "F" -> "f"
      [] c = "G" -> "g"
      [] c = "H" -> "h"
      [] c = "I" -> "i"
      [] c = "J" -> "j"
      [] c = "K" -> "k"
      [] c = "L" -> "l"
      [] c = "M" -> "m"
      [] c = "N" -> "n"
      [] c = "O" -> "o"
      [] c = "P" -> "p"
      [] c = "Q" -> "q"
      [] c = "R" -> "r"
      [] c = "S" -> "s"
      [] c = "T" -> "t"
      [] c = "U" -> "u"
      [] c = "V" -> "v"
      [] c = "W" -> "w"
      [] c = "X" -> "x"
      [] c = "Y" -> "y"
      [] c = "Z" -> "z"
      [] OTHER -> c

\* the characters of s from position n on, in lower case
RECURSIVE lower_from(_, _)
lower_from(s, n) ==
    IF n > Len(s) THEN ""
    ELSE lower_char(SubSeq(s, n, n)) \o lower_from(s, n + 1)

\* a string folded to lower case, as a case-insensitive match sees it
lower(s) == lower_from(s, 1)

\* pat occurs in s
contains(s, pat) ==
    \E n \in 1..(Len(s) - Len(pat) + 1) : SubSeq(s, n, n + Len(pat) - 1) = pat

\* a routing key that is NULL in the database
NullEmail == "<null>"

\* (variant) the match is case-sensitive
str_contains_case_sensitive(email, pat) ==
    email # NullEmail /\ contains(email, pat)

\* df['email'].str.contains(pat, case=False, na=False): a substring match
\* that ignores case; a null key matches nothing
str_contains(email, pat) ==
    /\ email # NullEmail
    /\ \E s \in {lower(email)}, p \in {lower(pat)} : contains(s, p)

\* the routing key of event i in the source database
EmailOf(i) ==
    CASE i % 5 = 1 -> "Ops@Prominence.gr"
      [] i % 5 = 2 -> "crew@seatraders.com"
      [] i % 5 = 3 -> NullEmail
      [] i % 5 = 4 -> "prominence@SEATRADERS.com"
      [] OTHER -> "agent@example.com"

\* df[df['email'].str.contains(pat, case=False, na=False)].copy()
GroupFrame(d, pat) ==
    LET keep == {r.id : r \in {q \in Range(d.rows) : str_contains(q.email, pat)}}
        sub == DataFrame(d.columns, SelectRows(d.rows, keep))
    IN  IF empty(sub) THEN sub
        ELSE DataFrame(sub.columns \ {"email"}, sub.rows)

\* the event_ids list make_html returns: one id per row, only when the frame
\* has both the event_name and the id column
make_html_event_ids(d) ==
    IF {"event_name", "id"} \subseteq d.columns
    THEN [n \in 1..Len(d.rows) |-> d.rows[n].id]
    ELSE <<>>

(* ---------------- transports ------------------------------------------- *)
\* send_email: "skipped" = returned without sending (no recipients),
\* "sent" = the SMTP conversation completed, "raised" = it raised
send_email(has_recipients, transport_ok) ==
    IF ~has_recipients THEN "skipped"
    ELSE IF transport_ok THEN "sent" ELSE "raised"

\* send_teams_message: "skipped" = returned without sending (no webhook URL)
send_teams_message(has_webhook_url, transport_ok) ==
    IF ~has_webhook_url THEN "skipped"
    ELSE IF transport_ok THEN "sent" ELSE "raised"

\* (variant) any flag commits the whole internal list
all_sent_event_ids_any(ns, nsp, nss, e, ep, es) ==
    IF ns \/ nsp \/ nss THEN Range(e) ELSE {}

\* the set main() builds from the three flags and the three id lists
all_sent_event_ids(ns, nsp, nss, e, ep, es) ==
    (IF ns /\ e # <<>> THEN Range(e) ELSE {})
      \cup (IF nsp /\ ep # <<>> THEN Range(ep) ELSE {})
      \cup (IF nss /\ es # <<>> THEN Range(es) ELSE {})

\* (variant) the dict is rebuilt from the new ids only
MarkSent_only_new(sent, ids, current_timestamp) ==
    [i \in ids |-> current_timestamp]

\* sent_events after "for event_id in all_sent_event_ids: sent_events[event_id] = ts"
MarkSent(sent, ids, current_timestamp) ==
    [i \in DOMAIN sent \cup ids |->
        IF i \in ids THEN current_timestamp ELSE sent[i]]

(* ---------------- exceptions ------------------------------------------- *)
\* what get_db_connection, load_sql_query and pd.read_sql_query raise:
\* a refused connection, a missing SQL file, a pandas DatabaseError, a
\* driver error that is none of these
QueryExceptions ==
    {"ConnectionError", "FileNotFoundError", "DatabaseError", "OperationalError"}

\* the classes main() names in its except clauses
NamedExceptions ==
    {"ConnectionError", "SMTPException", "ValueError", "FileNotFoundError",
     "KeyError", "DatabaseError", "JSONDecodeError", "PermissionError"}

\* isinstance(e, Exception): everything but the BaseException-only classes
IsException(e) == e \notin {"KeyboardInterrupt", "SystemExit", "GeneratorExit"}

\* (variant) main() has no "except Exception" clause
MainCatches_named_only(e) == e \in NamedExceptions

\* one of main()'s except clauses matches the exception
MainCatches(e) == e \in NamedExceptions \/ IsException(e)

(* ---------------- configuration ---------------------------------------- *)
\* the module-level settings read from .env; a recipient list and the
\* webhook URL are kept as "is it non-empty"
Config(email, special, teams, internal, prominence, seatraders, url, days) ==
    [ENABLE_EMAIL_ALERTS |-> email,
     ENABLE_SPECIAL_TEAMS_EMAIL_ALERT |-> special,
     ENABLE_TEAMS_ALERTS |-> teams,
     INTERNAL_RECIPIENTS |-> internal,
     PROMINENCE_EMAIL_RECIPIENTS |-> prominence,
     SEATRADERS_EMAIL_RECIPIENTS |-> seatraders,
     TEAMS_WEBHOOK_URL |-> url,
     REMINDER_FREQUENCY_DAYS |-> days]

Windows == 1..MaxWindow

AllConfigs ==
    {Config(e, s, t, i, p, r, u, d) :
        e \in BOOLEAN, s \in BOOLEAN, t \in BOOLEAN, i \in BOOLEAN,
        p \in BOOLEAN, r \in BOOLEAN, u \in BOOLEAN, d \in Windows}

\* fully configured deployments: every recipient list and the webhook URL
\* are set; either the e-mail channel or the two Teams channels are enabled
ConfiguredConfigs ==
    {c \in AllConfigs :
        /\ c.INTERNAL_RECIPIENTS /\ c.PROMINENCE_EMAIL_RECIPIENTS
        /\ c.SEATRADERS_EMAIL_RECIPIENTS /\ c.TEAMS_WEBHOOK_URL
        /\ c.ENABLE_SPECIAL_TEAMS_EMAIL_ALERT = c.ENABLE_TEAMS_ALERTS
        /\ c.ENABLE_EMAIL_ALERTS = ~c.ENABLE_TEAMS_ALERTS}

(* ---------------- inputs ----------------------------------------------- *)
RowOf(i) == [id |-> i, email |-> EmailOf(i)]

RowsOf(S) == LET ids == SetToSeq(S) IN [n \in 1..Len(ids) |-> RowOf(ids[n])]

\* what pd.read_sql_query can return: any set of events with all required
\* columns, a non-empty result lacking a required column, or an empty
\* result lacking one
QueryResults ==
    {DataFrame(required_columns, RowsOf(S)) : S \in SUBSET Ids}
      \cup {DataFrame(required_columns \ {c}, RowsOf(Ids)) : c \in {"id", "email"}}
      \cup {DataFrame(required_columns \ {"id"}, <<>>)}

\* stores whose entries were all written at time 0
InitialStores == {[i \in S |-> isoformat(0)] : S \in SUBSET Ids}

LegacyFile(ids) ==
    FileOf("dict", {"sent_event_ids", "last_updated", "total_count"}, EmptyDict, ids)

\* a current-format file that still carries the legacy list
MixedFile ==
    FileOf("dict", {"sent_events", "sent_event_ids", "last_updated"},
           [k \in {str(1)} |-> isoformat(0)], SetToSeq(Ids))

\* a file whose sent_events mapping is empty and that still carries the
\* legacy list
EmptyMappingFile ==
    FileOf("dict", {"sent_events", "sent_event_ids", "last_updated"},
           EmptyDict, SetToSeq(Ids))

\* a file with one entry whose timestamp cannot be parsed
InvalidTimestampFile ==
    FileOf("dict", {"sent_events", "last_updated"},
           [k \in {str(i) : i \in Ids} |->
               IF k = str(1) THEN InvalidTimestamp ELSE isoformat(0)], <<>>)

\* a file with one key that is not an integer
NonIntKeyFile ==
    FileOf("dict", {"sent_events", "last_updated"},
           [k \in {str(1), NonIntKey} |-> isoformat(0)], <<>>)

CorruptFiles == {BadJsonFile, NotDictFile, NonIntKeyFile}

WellFormedFiles ==
    {MissingFile, LegacyFile(SetToSeq(Ids)), MixedFile, InvalidTimestampFile}
      \cup {SavedDocument(s) : s \in InitialStores}


(* ======================= state ========================================= *)
VARIABLES
    clock,          \* datetime.now(tz=LOCAL_TZ), in ticks
    cfg,            \* the module-level settings
    file,           \* SENT_EVENTS_FILE on disk
    temp,           \* the mkstemp file of the running save_sent_events
    orphans,        \* a temp file of a crashed process is left in DATA_DIR
    pc,             \* where the process is
    run_time,       \* main(): run_time
    sent_events,    \* main(): sent_events
    df,             \* main(): df
    original_count, \* main(): original_count
    df_prominence,  \* main(): df_prominence
    df_seatraders,  \* main(): df_seatraders
    event_ids,      \* main(): event_ids, event_ids_prominence, event_ids_seatraders
    flags,          \* main(): notifications_sent, _prominence, _seatraders
    outcome,        \* what each send_* call of this run did
    committed,      \* main(): all_sent_event_ids
    save,           \* save_sent_events: argument, caller, file before the call
    file_after_load,\* the file when load_sent_events returned
    persist_failed, \* save_sent_events raised in this run
    exception,      \* the exception main() is handling, by class name
    shutdown_event, \* shutdown_event.is_set()
    wait_until,     \* when the running shutdown_event.wait(timeout) times out
    started_at,     \* when run_scheduler last called main() (-1: not yet)
    returned_at     \* when that call returned (-1: it has not)

sched == <<shutdown_event, wait_until, started_at, returned_at>>

vars == <<clock, cfg, sched, exception, file, temp, orphans, pc, run_time,
          sent_events, df, original_count, df_prominence, df_seatraders,
          event_ids, flags, outcome, committed, save, file_after_load,
          persist_failed>>

frames == <<df, original_count, df_prominence, df_seatraders>>
delivery == <<event_ids, flags, outcome, committed>>

Attempts == {"internal", "prominence", "seatraders", "special", "teams"}

NoFrame == DataFrame({}, <<>>)
NoTemp == [state |-> "none", content |-> MissingFile]
NoSave == [arg |-> EmptyDict, caller |-> "none", before |-> MissingFile,
           failed |-> "none"]
NoEventIds == [internal |-> <<>>, prominence |-> <<>>, seatraders |-> <<>>]
NoFlags == [notifications_sent |-> FALSE,
            notifications_sent_prominence |-> FALSE,
            notifications_sent_seatraders |-> FALSE]
NoOutcome == [a \in Attempts |-> "none"]

SavePcs == {"save_mkstemp", "save_write", "save_writing", "save_move",
            "save_inner_except", "save_outer_except", "save_return"}
SendPcs == {"send_internal", "send_prominence", "send_seatraders",
            "send_special", "send_teams"}
RunPcs == {"load", "load_except", "query", "validate", "type_status", "filter",
           "route", "render", "commit", "main_except", "done"}
              \cup SavePcs \cup SendPcs

\* the locals of main() and save_sent_events before a run
RunReset ==
    /\ run_time' = 0
    /\ sent_events' = EmptyDict
    /\ df' = NoFrame
    /\ original_count' = 0
    /\ df_prominence' = NoFrame
    /\ df_seatraders' = NoFrame
    /\ event_ids' = NoEventIds
    /\ flags' = NoFlags
    /\ outcome' = NoOutcome
    /\ committed' = {}
    /\ save' = NoSave
    /\ file_after_load' = MissingFile
    /\ persist_failed' = FALSE

InitWith(configs, files) ==
    /\ clock = 0
    /\ cfg \in configs
    /\ file \in files
    /\ temp = NoTemp
    /\ orphans = FALSE
    /\ pc = "idle"
    /\ run_time = 0
    /\ sent_events = EmptyDict
    /\ df = NoFrame
    /\ original_count = 0
    /\ df_prominence = NoFrame
    /\ df_seatraders = NoFrame
    /\ event_ids = NoEventIds
    /\ flags = NoFlags
    /\ outcome = NoOutcome
    /\ committed = {}
    /\ save = NoSave
    /\ file_after_load = MissingFile
    /\ persist_failed = FALSE
    /\ exception = "none"
    /\ shutdown_event = FALSE
    /\ wait_until = 0
    /\ started_at = -1
    /\ returned_at = -1

Init == InitWith(ConfiguredConfigs, WellFormedFiles \cup CorruptFiles)

(* ======================= environment =================================== *)
\* time passes between runs, and between main() reading run_time and
\* load_sent_events reading the clock
Tick ==
    /\ pc \in {"idle", "load"}
    /\ clock < MaxTime
    /\ clock' = clock + 1
    /\ UNCHANGED <<cfg, sched, exception, file, temp, orphans, pc, run_time, sent_events, frames,
                   delivery, save, file_after_load, persist_failed>>

\* the process dies at any point of a run; files stay as they are
Crash ==
    /\ pc \in RunPcs
    /\ pc' = "crashed"
    /\ run_time' = 0
    /\ sent_events' = EmptyDict
    /\ df' = NoFrame
    /\ original_count' = 0
    /\ df_prominence' = NoFrame
    /\ df_seatraders' = NoFrame
    /\ event_ids' = NoEventIds
    /\ flags' = NoFlags
    /\ outcome' = NoOutcome
    /\ committed' = {}
    /\ file_after_load' = MissingFile
    /\ persist_failed' = FALSE
    /\ save' = IF pc \in SavePcs THEN save ELSE NoSave
    /\ exception' = "none"
    /\ UNCHANGED <<clock, cfg, sched, file, temp, orphans>>

\* the process is started again
Restart ==
    /\ pc = "crashed"
    /\ pc' = "idle"
    /\ save' = NoSave
    /\ orphans' = (orphans \/ temp.state # "none")
    /\ temp' = NoTemp
    /\ UNCHANGED <<clock, cfg, sched, exception, file, run_time, sent_events, frames,
                   delivery, file_after_load, persist_failed>>

(* ======================= save_sent_events ============================== *)
\* entry: called with the dict `arg` from `caller`
CallSave(arg, caller) ==
    /\ pc' = "save_mkstemp"
    /\ save' = [arg |-> arg, caller |-> caller, before |-> file,
                failed |-> "none"]

\* tempfile.mkstemp(dir=SENT_EVENTS_FILE.parent)
SaveMkstemp ==
    /\ pc = "save_mkstemp"
    /\ temp' = [state |-> "empty", content |-> MissingFile]
    /\ pc' = "save_write"
    /\ UNCHANGED <<clock, cfg, sched, exception, file, orphans, run_time, sent_events, frames, delivery,
                   save, file_after_load, persist_failed>>

\* building the document or mkstemp raises: the outer except clause
SaveMkstempFail ==
    /\ pc = "save_mkstemp"
    /\ pc' = "save_outer_except"
    /\ save' = [save EXCEPT !.failed = "mkstemp"]
    /\ UNCHANGED <<clock, cfg, sched, exception, file, temp, orphans, run_time, sent_events, frames,
                   delivery, file_after_load, persist_failed>>

\* (variant) the document is written straight into SENT_EVENTS_FILE
SaveWriteBegin_in_place ==
    /\ pc = "save_write"
    /\ file' = BadJsonFile
    /\ pc' = "save_writing"
    /\ UNCHANGED <<clock, cfg, sched, exception, temp, orphans, run_time, sent_events, frames,
                   delivery, save, file_after_load, persist_failed>>

\* json.dump has written part of the document to the temporary file
SaveWriteBegin ==
    /\ pc = "save_write"
    /\ temp' = [state |-> "partial", content |-> SavedDocument(save.arg)]
    /\ pc' = "save_writing"
    /\ UNCHANGED <<clock, cfg, sched, exception, file, orphans, run_time, sent_events, frames, delivery,
                   save, file_after_load, persist_failed>>

\* json.dump has written the rest and the file is closed
SaveWriteEnd ==
    /\ pc = "save_writing"
    /\ temp' = [state |-> "complete", content |-> SavedDocument(save.arg)]
    /\ pc' = "save_move"
    /\ UNCHANGED <<clock, cfg, sched, exception, file, orphans, run_time, sent_events, frames, delivery,
                   save, file_after_load, persist_failed>>

\* shutil.move(temp_path, SENT_EVENTS_FILE): a rename within DATA_DIR
SaveMove ==
    /\ pc = "save_move"
    /\ file' = temp.content
    /\ temp' = NoTemp
    /\ pc' = "save_return"
    /\ UNCHANGED <<clock, cfg, sched, exception, orphans, run_time, sent_events, frames, delivery,
                   save, file_after_load, persist_failed>>

\* os.fdopen, json.dump or shutil.move raises: the inner except clause
SaveInnerFail ==
    /\ pc \in {"save_write", "save_writing", "save_move"}
    /\ pc' = "save_inner_except"
    /\ save' = [save EXCEPT !.failed = CASE pc = "save_write" -> "fdopen"
                                          [] pc = "save_writing" -> "dump"
                                          [] OTHER -> "move"]
    /\ UNCHANGED <<clock, cfg, sched, exception, file, temp, orphans, run_time, sent_events, frames,
                   delivery, file_after_load, persist_failed>>

\* (variant) the inner except clause re-raises without the unlink
SaveInnerExcept_keep_temp ==
    /\ pc = "save_inner_except"
    /\ pc' = "save_outer_except"
    /\ UNCHANGED <<clock, cfg, sched, exception, file, temp, orphans, run_time, sent_events,
                   frames, delivery, save, file_after_load, persist_failed>>

\* inner except: unlink the temporary file if it exists, re-raise
SaveInnerExcept ==
    /\ pc = "save_inner_except"
    /\ temp' = NoTemp
    /\ pc' = "save_outer_except"
    /\ UNCHANGED <<clock, cfg, sched, exception, file, orphans, run_time, sent_events, frames, delivery,
                   save, file_after_load, persist_failed>>

\* outer except: log and re-raise into the caller; in main() the exception
\* (an OSError of some kind) reaches the except clauses
SaveOuterExcept ==
    /\ pc = "save_outer_except"
    /\ pc' = IF save.caller = "load" THEN "load_except" ELSE "main_except"
    /\ persist_failed' = TRUE
    /\ IF save.caller = "load" THEN UNCHANGED exception
       ELSE \E e \in {"PermissionError", "OSError"} : exception' = e
    /\ UNCHANGED <<clock, cfg, sched, file, temp, orphans, run_time, sent_events, frames,
                   delivery, save, file_after_load>>

\* save_sent_events returns normally: load_sent_events returns
\* filtered_events, main() reaches the end of its try block
SaveReturn ==
    /\ pc = "save_return"
    /\ IF save.caller = "load"
       THEN /\ sent_events' = save.arg
            /\ file_after_load' = file
            /\ pc' = "query"
       ELSE /\ pc' = "done"
            /\ UNCHANGED <<sent_events, file_after_load>>
    /\ UNCHANGED <<clock, cfg, sched, exception, file, temp, orphans, run_time, frames, delivery, save,
                   persist_failed>>


(* ======================= main() ======================================== *)
\* main() is entered: run_time = datetime.now(tz=LOCAL_TZ)
RunStart ==
    /\ pc = "idle"
    /\ pc' = "load"
    /\ run_time' = clock
    /\ sent_events' = EmptyDict
    /\ df' = NoFrame
    /\ original_count' = 0
    /\ df_prominence' = NoFrame
    /\ df_seatraders' = NoFrame
    /\ event_ids' = NoEventIds
    /\ flags' = NoFlags
    /\ outcome' = NoOutcome
    /\ committed' = {}
    /\ save' = NoSave
    /\ file_after_load' = MissingFile
    /\ persist_failed' = FALSE
    /\ UNCHANGED <<clock, cfg, sched, exception, file, temp, orphans>>

\* (variant) the pruned store is returned without the re-persist
Load_no_repersist ==
    /\ pc = "load"
    /\ IF file.kind = "missing"
       THEN /\ sent_events' = EmptyDict
            /\ file_after_load' = file
            /\ pc' = "query"
       ELSE LET r == LoadParse(file, clock, cfg.REMINDER_FREQUENCY_DAYS)
            IN  IF r.raised
                THEN /\ pc' = "load_except"
                     /\ UNCHANGED <<sent_events, file_after_load>>
                ELSE /\ sent_events' = r.filtered_events
                     /\ file_after_load' = file
                     /\ pc' = "query"
    /\ UNCHANGED <<clock, cfg, sched, exception, file, temp, orphans, run_time, frames, delivery,
                   save, persist_failed>>

\* sent_events = load_sent_events(), up to the call of save_sent_events
Load ==
    /\ pc = "load"
    /\ IF file.kind = "missing"
       THEN /\ sent_events' = EmptyDict
            /\ file_after_load' = file
            /\ pc' = "query"
            /\ UNCHANGED save
       ELSE LET r == LoadParse(file, clock, cfg.REMINDER_FREQUENCY_DAYS)
            IN  IF r.raised
                THEN /\ pc' = "load_except"
                     /\ UNCHANGED <<sent_events, file_after_load, save>>
                ELSE IF r.removed_count > 0
                THEN /\ CallSave(r.filtered_events, "load")
                     /\ UNCHANGED <<sent_events, file_after_load>>
                ELSE /\ sent_events' = r.filtered_events
                     /\ file_after_load' = file
                     /\ pc' = "query"
                     /\ UNCHANGED save
    /\ UNCHANGED <<clock, cfg, sched, exception, file, temp, orphans, run_time, frames, delivery,
                   persist_failed>>

\* (variant) the except clause resets the file to an empty document
LoadExcept_rewrite ==
    /\ pc = "load_except"
    /\ sent_events' = EmptyDict
    /\ file' = SavedDocument(EmptyDict)
    /\ file_after_load' = file'
    /\ pc' = "query"
    /\ UNCHANGED <<clock, cfg, sched, exception, temp, orphans, run_time, frames, delivery, save,
                   persist_failed>>

\* (variant) the except clause keeps the entries whose key is an integer
LoadExcept_keeps_valid ==
    /\ pc = "load_except"
    /\ sent_events' = [i \in {j \in Ids : /\ file.kind = "dict"
                                          /\ str(j) \in DOMAIN file.sent_events}
                          |-> file.sent_events[str(i)]]
    /\ file_after_load' = file
    /\ pc' = "query"
    /\ UNCHANGED <<clock, cfg, sched, exception, file, temp, orphans, run_time, frames, delivery, save,
                   persist_failed>>

\* load_sent_events: except json.JSONDecodeError / except Exception: return {}
LoadExcept ==
    /\ pc = "load_except"
    /\ sent_events' = EmptyDict
    /\ file_after_load' = file
    /\ pc' = "query"
    /\ UNCHANGED <<clock, cfg, sched, exception, file, temp, orphans, run_time, frames, delivery, save,
                   persist_failed>>

\* get_db_connection, load_sql_query and pd.read_sql_query succeed
Query ==
    /\ pc = "query"
    /\ \E result \in QueryResults : df' = result
    /\ pc' = "validate"
    /\ UNCHANGED <<clock, cfg, sched, exception, file, temp, orphans, run_time, sent_events,
                   original_count, df_prominence, df_seatraders, delivery, save,
                   file_after_load, persist_failed>>

\* the connection, the SQL file or a query raises (events query, type and
\* status query and its validation, or the query behind make_subject /
\* make_html)
QueryFail ==
    /\ pc \in {"query", "type_status", "render"}
    /\ pc' = "main_except"
    /\ \E e \in QueryExceptions : exception' = e
    /\ UNCHANGED <<clock, cfg, sched, file, temp, orphans, run_time, sent_events, frames,
                   delivery, save, file_after_load, persist_failed>>

\* validate_dataframe_columns(df, required_columns)
Validate ==
    /\ pc = "validate"
    /\ pc' = IF validate_raises(df, required_columns)
             THEN "main_except" ELSE "type_status"
    /\ exception' = IF validate_raises(df, required_columns)
                    THEN "ValueError" ELSE exception
    /\ UNCHANGED <<clock, cfg, sched, file, temp, orphans, run_time, sent_events, frames,
                   delivery, save, file_after_load, persist_failed>>

\* the type and status query succeeds
TypeStatus ==
    /\ pc = "type_status"
    /\ pc' = "filter"
    /\ UNCHANGED <<clock, cfg, sched, exception, file, temp, orphans, run_time, sent_events, frames,
                   delivery, save, file_after_load, persist_failed>>

\* (variant) main() goes on to routing and delivery with whatever is left
Filter_no_return ==
    /\ pc = "filter"
    /\ original_count' = Len(df.rows)
    /\ df' = filter_unsent_events(df, sent_events)
    /\ pc' = "route"
    /\ UNCHANGED <<clock, cfg, sched, exception, file, temp, orphans, run_time, sent_events,
                   df_prominence, df_seatraders, delivery, save,
                   file_after_load, persist_failed>>

\* original_count = len(df); df = filter_unsent_events(df, sent_events);
\* return if df.empty
Filter ==
    /\ pc = "filter"
    /\ original_count' = Len(df.rows)
    /\ df' = filter_unsent_events(df, sent_events)
    /\ pc' = IF empty(df') THEN "done" ELSE "route"
    /\ UNCHANGED <<clock, cfg, sched, exception, file, temp, orphans, run_time, sent_events,
                   df_prominence, df_seatraders, delivery, save,
                   file_after_load, persist_failed>>

\* the company frames are cut from the filtered df, then df loses its
\* email column
Route ==
    /\ pc = "route"
    /\ df_prominence' = GroupFrame(df, "prominence")
    /\ df_seatraders' = GroupFrame(df, "seatraders")
    /\ df' = DataFrame(df.columns \ {"email"}, df.rows)
    /\ pc' = "render"
    /\ UNCHANGED <<clock, cfg, sched, exception, file, temp, orphans, run_time, sent_events,
                   original_count, delivery, save, file_after_load, persist_failed>>

\* make_subject / make_plain_text / make_html for df and for each non-empty
\* company frame
Render ==
    /\ pc = "render"
    /\ event_ids' =
         [internal |-> make_html_event_ids(df),
          prominence |-> IF ~empty(df_prominence)
                         THEN make_html_event_ids(df_prominence) ELSE <<>>,
          seatraders |-> IF ~empty(df_seatraders)
                         THEN make_html_event_ids(df_seatraders) ELSE <<>>]
    /\ pc' = "send_internal"
    /\ UNCHANGED <<clock, cfg, sched, exception, file, temp, orphans, run_time, sent_events, frames,
                   flags, outcome, committed, save, file_after_load,
                   persist_failed>>

\* (variant) the flag is set after the try statement instead of inside it
Attempt_flag_always(a, flag, result, next) ==
    /\ outcome' = [outcome EXCEPT ![a] = result]
    /\ flags' = [flags EXCEPT ![flag] = TRUE]
    /\ pc' = next

\* one try/except around a send_* call: the call is recorded, the flag is
\* set when the call returned, an exception is logged and dropped
Attempt(a, flag, result, next) ==
    /\ outcome' = [outcome EXCEPT ![a] = result]
    /\ flags' = IF result = "raised" THEN flags
                ELSE [flags EXCEPT ![flag] = TRUE]
    /\ pc' = next

NoAttempt(next) ==
    /\ pc' = next
    /\ UNCHANGED <<outcome, flags>>

\* (variant) the internal send_email call is not wrapped in try/except
SendInternal_abort ==
    /\ pc = "send_internal"
    /\ IF cfg.ENABLE_EMAIL_ALERTS
       THEN \E transport_ok \in BOOLEAN :
              LET result == send_email(cfg.INTERNAL_RECIPIENTS, transport_ok)
              IN  Attempt("internal", "notifications_sent", result,
                          IF result = "raised" THEN "main_except"
                          ELSE "send_prominence")
       ELSE NoAttempt("send_special")
    /\ UNCHANGED <<clock, cfg, sched, exception, file, temp, orphans, run_time, sent_events,
                   frames, event_ids, committed, save, file_after_load,
                   persist_failed>>

SendInternal ==
    /\ pc = "send_internal"
    /\ IF cfg.ENABLE_EMAIL_ALERTS
       THEN \E transport_ok \in BOOLEAN :
              Attempt("internal", "notifications_sent",
                      send_email(cfg.INTERNAL_RECIPIENTS, transport_ok),
                      "send_prominence")
       ELSE NoAttempt("send_special")
    /\ UNCHANGED <<clock, cfg, sched, exception, file, temp, orphans, run_time, sent_events, frames,
                   event_ids, committed, save, file_after_load,
                   persist_failed>>

\* (variant) the Prominence e-mail is sent whether or not the group has events
SendProminence_always ==
    /\ pc = "send_prominence"
    /\ \E transport_ok \in BOOLEAN :
         Attempt("prominence", "notifications_sent_prominence",
                 send_email(cfg.PROMINENCE_EMAIL_RECIPIENTS, transport_ok),
                 "send_seatraders")
    /\ UNCHANGED <<clock, cfg, sched, exception, file, temp, orphans, run_time,
                   sent_events, frames, event_ids, committed, save,
                   file_after_load, persist_failed>>

SendProminence ==
    /\ pc = "send_prominence"
    /\ IF ~empty(df_prominence)
       THEN \E transport_ok \in BOOLEAN :
              Attempt("prominence", "notifications_sent_prominence",
                      send_email(cfg.PROMINENCE_EMAIL_RECIPIENTS, transport_ok),
                      "send_seatraders")
       ELSE NoAttempt("send_seatraders")
    /\ UNCHANGED <<clock, cfg, sched, exception, file, temp, orphans, run_time, sent_events, frames,
                   event_ids, committed, save, file_after_load,
                   persist_failed>>

SendSeatraders ==
    /\ pc = "send_seatraders"
    /\ IF ~empty(df_seatraders)
       THEN \E transport_ok \in BOOLEAN :
              Attempt("seatraders", "notifications_sent_seatraders",
                      send_email(cfg.SEATRADERS_EMAIL_RECIPIENTS, transport_ok),
                      "send_special")
       ELSE NoAttempt("send_special")
    /\ UNCHANGED <<clock, cfg, sched, exception, file, temp, orphans, run_time, sent_events, frames,
                   event_ids, committed, save, file_after_load,
                   persist_failed>>

\* special_email = [SPECIAL_TEAMS_EMAIL] is never an empty list
SendSpecial ==
    /\ pc = "send_special"
    /\ IF cfg.ENABLE_SPECIAL_TEAMS_EMAIL_ALERT
       THEN \E transport_ok \in BOOLEAN :
              Attempt("special", "notifications_sent",
                      send_email(TRUE, transport_ok), "send_teams")
       ELSE NoAttempt("send_teams")
    /\ UNCHANGED <<clock, cfg, sched, exception, file, temp, orphans, run_time, sent_events, frames,
                   event_ids, committed, save, file_after_load,
                   persist_failed>>

SendTeams ==
    /\ pc = "send_teams"
    /\ IF cfg.ENABLE_TEAMS_ALERTS
       THEN \E transport_ok \in BOOLEAN :
              Attempt("teams", "notifications_sent",
                      send_teams_message(cfg.TEAMS_WEBHOOK_URL, transport_ok),
                      "commit")
       ELSE NoAttempt("commit")
    /\ UNCHANGED <<clock, cfg, sched, exception, file, temp, orphans, run_time, sent_events, frames,
                   event_ids, committed, save, file_after_load,
                   persist_failed>>

\* (variant) the commit stamps the entries with the time of the commit
Commit_stamp_now ==
    /\ pc = "commit"
    /\ committed' = all_sent_event_ids(flags.notifications_sent,
                                       flags.notifications_sent_prominence,
                                       flags.notifications_sent_seatraders,
                                       event_ids.internal,
                                       event_ids.prominence,
                                       event_ids.seatraders)
    /\ IF committed' # {}
       THEN /\ sent_events' = MarkSent(sent_events, committed', isoformat(clock))
            /\ CallSave(sent_events', "main")
       ELSE /\ pc' = "done"
            /\ UNCHANGED <<sent_events, save>>
    /\ UNCHANGED <<clock, cfg, sched, exception, file, temp, orphans, run_time, frames, event_ids, flags,
                   outcome, file_after_load, persist_failed>>

\* collect all_sent_event_ids; if any, stamp them with run_time.isoformat()
\* and call save_sent_events(sent_events)
Commit ==
    /\ pc = "commit"
    /\ committed' = all_sent_event_ids(flags.notifications_sent,
                                       flags.notifications_sent_prominence,
                                       flags.notifications_sent_seatraders,
                                       event_ids.internal,
                                       event_ids.prominence,
                                       event_ids.seatraders)
    /\ IF committed' # {}
       THEN /\ sent_events' = MarkSent(sent_events, committed', isoformat(run_time))
            /\ CallSave(sent_events', "main")
       ELSE /\ pc' = "done"
            /\ UNCHANGED <<sent_events, save>>
    /\ UNCHANGED <<clock, cfg, sched, exception, file, temp, orphans, run_time, frames, event_ids, flags,
                   outcome, file_after_load, persist_failed>>

\* (variant) the handler resets the tracking file
MainExcept_resets_tracking ==
    /\ pc = "main_except"
    /\ pc' = "done"
    /\ exception' = "none"
    /\ file' = MissingFile
    /\ UNCHANGED <<clock, cfg, sched, temp, orphans, run_time, sent_events,
                   frames, delivery, save, file_after_load, persist_failed>>

\* the except clauses of main(): the clause that matches logs and falls
\* through to finally; an exception no clause matches leaves main()
MainExcept ==
    /\ pc = "main_except"
    /\ IF MainCatches(exception)
       THEN pc' = "done" /\ exception' = "none"
       ELSE pc' = "sched_except" /\ UNCHANGED exception
    /\ UNCHANGED <<clock, cfg, sched, file, temp, orphans, run_time, sent_events, frames,
                   delivery, save, file_after_load, persist_failed>>

\* main() returns
RunEnd ==
    /\ pc = "done"
    /\ pc' = "idle"
    /\ RunReset
    /\ UNCHANGED <<clock, cfg, sched, exception, file, temp, orphans>>

(* ======================= specifications ================================ *)
RunNext ==
    \/ RunStart \/ Load \/ LoadExcept \/ Query \/ Validate \/ TypeStatus
    \/ Filter \/ Route \/ Render
    \/ SendInternal \/ SendProminence \/ SendSeatraders \/ SendSpecial
    \/ SendTeams \/ Commit \/ MainExcept \/ RunEnd
    \/ SaveMkstemp \/ SaveWriteBegin \/ SaveWriteEnd \/ SaveMove \/ SaveReturn

Next ==
    \/ RunNext
    \/ Tick \/ Crash \/ Restart \/ QueryFail
    \/ SaveMkstempFail \/ SaveInnerFail \/ SaveInnerExcept \/ SaveOuterExcept

Spec == Init /\ [][Next]_vars


\* the files of a deployment that has notified before: with a legacy
\* sent_event_ids list, alone or next to a sent_events mapping, and the
\* current-format file of one tracked event
TrackedFiles ==
    {LegacyFile(SetToSeq(Ids)), MixedFile, EmptyMappingFile,
     SavedDocument([i \in {1} |-> isoformat(0)])}

\* main() run again and again on such a file, with clock ticks, crashes and
\* storage faults
InitTracked == InitWith(ConfiguredConfigs, TrackedFiles)

SpecTracked == InitTracked /\ [][Next]_vars

\* the same on the file with a key that is not an integer, with a window of
\* one tick
InitNonIntKey ==
    InitWith({c \in ConfiguredConfigs : c.REMINDER_FREQUENCY_DAYS = 1},
             {NonIntKeyFile})

SpecNonIntKey == InitNonIntKey /\ [][Next]_vars

\* the files a delivery-only behaviour starts from: every file but the one
\* that already tracks all events
DeliveryFiles ==
    (WellFormedFiles \cup CorruptFiles)
        \ {SavedDocument([i \in Ids |-> isoformat(0)])}

\* every configuration of channels, recipient lists and webhook URL, with
\* working storage and a clock that stands still
InitDelivery == InitWith(AllConfigs, DeliveryFiles)

SpecDelivery == InitDelivery /\ [][RunNext]_vars


(* ---------------- filter_unsent_events and routing on their own --------- *)
\* candidate batches in any order, with repeated ids, with or without the
\* id column, against every store over the candidate ids
CandidateIds == 1..MaxCand

CandidateRows ==
    UNION {[1..n -> {RowOf(i) : i \in CandidateIds}] : n \in 0..MaxLen}

CandidateFrames ==
    {DataFrame(columns, rows) :
        columns \in {required_columns, required_columns \ {"id"}},
        rows \in CandidateRows}

CandidateStores == {[i \in S |-> isoformat(0)] : S \in SUBSET CandidateIds}

\* main() stands before "df = filter_unsent_events(df, sent_events)"
InitFilter ==
    /\ clock = 0
    /\ cfg \in {c \in ConfiguredConfigs :
                   c.ENABLE_EMAIL_ALERTS /\ c.REMINDER_FREQUENCY_DAYS = 1}
    /\ file = MissingFile
    /\ temp = NoTemp
    /\ orphans = FALSE
    /\ pc = "filter"
    /\ run_time = 0
    /\ sent_events \in CandidateStores
    /\ df \in CandidateFrames
    /\ original_count = 0
    /\ df_prominence = NoFrame
    /\ df_seatraders = NoFrame
    /\ event_ids = NoEventIds
    /\ flags = NoFlags
    /\ outcome = NoOutcome
    /\ committed = {}
    /\ save = NoSave
    /\ file_after_load = MissingFile
    /\ persist_failed = FALSE
    /\ exception = "none"
    /\ shutdown_event = FALSE
    /\ wait_until = 0
    /\ started_at = -1
    /\ returned_at = -1

\* the filter step and, when candidates remain, the routing step
FilterNext == Filter \/ Route

SpecFilter == InitFilter /\ [][FilterNext]_vars


(* ---------------- --dry-run --------------------------------------------- *)
\* (variant) --dry-run leaves the Teams webhook switch as configured
dry_run_keeps_teams(c) ==
    [c EXCEPT !.ENABLE_EMAIL_ALERTS = FALSE,
              !.ENABLE_SPECIAL_TEAMS_EMAIL_ALERT = FALSE]

\* if args.dry_run: the three switches are rebound to False before main()
dry_run(c) ==
    [c EXCEPT !.ENABLE_EMAIL_ALERTS = FALSE,
              !.ENABLE_SPECIAL_TEAMS_EMAIL_ALERT = FALSE,
              !.ENABLE_TEAMS_ALERTS = FALSE]

\* every configured deployment started with --dry-run, on every file
InitDryRun ==
    InitWith({dry_run(c) : c \in ConfiguredConfigs},
             WellFormedFiles \cup CorruptFiles)

\* with the e-mail switch off main() goes from the internal e-mail straight
\* to the special Teams e-mail; storage faults, query failures and the
\* passing of time are as in any run
DryRunNext ==
    \/ RunStart \/ Load \/ LoadExcept \/ Query \/ Validate \/ TypeStatus
    \/ Filter \/ Route \/ Render
    \/ SendInternal \/ SendSpecial \/ SendTeams \/ Commit \/ MainExcept
    \/ RunEnd
    \/ SaveMkstemp \/ SaveWriteBegin \/ SaveWriteEnd \/ SaveMove \/ SaveReturn
    \/ Tick \/ QueryFail
    \/ SaveMkstempFail \/ SaveInnerFail \/ SaveInnerExcept \/ SaveOuterExcept

SpecDryRun == InitDryRun /\ [][DryRunNext]_vars

(* ======================= run_scheduler ================================= *)
\* the time between the return of a run and the next one, in ticks
SCHEDULE_FREQUENCY == 2

\* the wait after an exception reached the loop (300 seconds), in ticks
RetryWait == 1

\* the last tick of a scheduler behaviour
MaxSchedTime == 5

SchedPcs == {"sched_while", "sleeping", "sched_except", "cooldown", "stopped"}

\* (variant) the default disposition of SIGTERM: the signal ends the process
\* where it stands
Signal_interrupts ==
    /\ pc # "stopped"
    /\ ~shutdown_event
    /\ shutdown_event' = TRUE
    /\ pc' = "stopped"
    /\ UNCHANGED <<clock, cfg, wait_until, started_at, returned_at, exception,
                   file, temp, orphans, run_time, sent_events, frames, delivery,
                   save, file_after_load, persist_failed>>

\* signal_handler, on SIGTERM or SIGINT at any point: it sets the event and
\* returns to the interrupted code
Signal ==
    /\ pc # "stopped"
    /\ ~shutdown_event
    /\ shutdown_event' = TRUE
    /\ UNCHANGED <<clock, cfg, wait_until, started_at, returned_at, exception, file, temp,
                   orphans, pc, run_time, sent_events, frames, delivery, save,
                   file_after_load, persist_failed>>

\* time passes while the query runs and while the scheduler waits
SchedTick ==
    /\ pc \in {"query", "sleeping", "cooldown"}
    /\ clock < MaxSchedTime
    /\ clock' = clock + 1
    /\ UNCHANGED <<cfg, sched, exception, file, temp, orphans, pc, run_time,
                   sent_events, frames, delivery, save, file_after_load,
                   persist_failed>>

\* while not shutdown_event.is_set(): main()
SchedWhile ==
    /\ pc = "sched_while"
    /\ pc' = IF shutdown_event THEN "stopped" ELSE "load"
    /\ run_time' = IF shutdown_event THEN run_time ELSE clock
    /\ started_at' = IF shutdown_event THEN started_at ELSE clock
    /\ returned_at' = IF shutdown_event THEN returned_at ELSE -1
    /\ UNCHANGED <<clock, cfg, shutdown_event, wait_until, exception, file, temp, orphans,
                   sent_events, frames, delivery, save, file_after_load,
                   persist_failed>>

\* (variant) the sleep is counted from the start of the run
SchedAfterMain_fixed_rate ==
    /\ pc = "idle"
    /\ returned_at' = clock
    /\ IF shutdown_event
       THEN pc' = "stopped" /\ UNCHANGED wait_until
       ELSE pc' = "sleeping" /\ wait_until' = started_at + SCHEDULE_FREQUENCY
    /\ UNCHANGED <<clock, cfg, shutdown_event, started_at, exception, file,
                   temp, orphans, run_time, sent_events, frames, delivery, save,
                   file_after_load, persist_failed>>

\* main() returned: the flag is read before sleeping, then
\* shutdown_event.wait(timeout=sleep_seconds) starts
SchedAfterMain ==
    /\ pc = "idle"
    /\ returned_at' = clock
    /\ IF shutdown_event
       THEN pc' = "stopped" /\ UNCHANGED wait_until
       ELSE pc' = "sleeping" /\ wait_until' = clock + SCHEDULE_FREQUENCY
    /\ UNCHANGED <<clock, cfg, shutdown_event, started_at, exception, file,
                   temp, orphans, run_time, sent_events, frames, delivery, save,
                   file_after_load, persist_failed>>

\* the wait of the sleep times out (it returns False): next iteration
SchedSleepTimeout ==
    /\ pc = "sleeping"
    /\ ~shutdown_event
    /\ clock >= wait_until
    /\ pc' = "sched_while"
    /\ UNCHANGED <<clock, cfg, sched, exception, file, temp, orphans, run_time,
                   sent_events, frames, delivery, save, file_after_load,
                   persist_failed>>

\* (variant) time.sleep(sleep_seconds): the sleep ignores the event
SchedSleepShutdown_uninterruptible ==
    /\ pc = "sleeping"
    /\ shutdown_event
    /\ clock >= wait_until
    /\ pc' = "sched_while"
    /\ UNCHANGED <<clock, cfg, sched, exception, file, temp, orphans, run_time,
                   sent_events, frames, delivery, save, file_after_load,
                   persist_failed>>

\* the wait of the sleep returns True as soon as the event is set: break
SchedSleepShutdown ==
    /\ pc = "sleeping"
    /\ shutdown_event
    /\ pc' = "stopped"
    /\ UNCHANGED <<clock, cfg, sched, exception, file, temp, orphans, run_time,
                   sent_events, frames, delivery, save, file_after_load,
                   persist_failed>>

\* an exception raised while an except clause or the finally clause of
\* main() runs is handled by none of them: it leaves main()
ExceptClauseRaises ==
    /\ pc = "main_except"
    /\ pc' = "sched_except"
    /\ exception' = "RuntimeError"
    /\ UNCHANGED <<clock, cfg, sched, file, temp, orphans, run_time,
                   sent_events, frames, delivery, save, file_after_load,
                   persist_failed>>

\* (variant) the loop starts the next run without waiting
SchedExcept_no_wait ==
    /\ pc = "sched_except"
    /\ pc' = "sched_while"
    /\ exception' = "none"
    /\ RunReset
    /\ UNCHANGED <<clock, cfg, shutdown_event, wait_until, started_at,
                   returned_at, file, temp, orphans>>

\* except Exception in the loop: log, and unless shutdown was requested
\* start shutdown_event.wait(timeout=300)
SchedExcept ==
    /\ pc = "sched_except"
    /\ exception' = "none"
    /\ RunReset
    /\ IF shutdown_event
       THEN pc' = "sched_while" /\ UNCHANGED wait_until
       ELSE pc' = "cooldown" /\ wait_until' = clock + RetryWait
    /\ UNCHANGED <<clock, cfg, shutdown_event, started_at, returned_at, file,
                   temp, orphans>>

\* the wait after the exception times out: next iteration
SchedCooldownTimeout ==
    /\ pc = "cooldown"
    /\ ~shutdown_event
    /\ clock >= wait_until
    /\ pc' = "sched_while"
    /\ UNCHANGED <<clock, cfg, sched, exception, file, temp, orphans, run_time,
                   sent_events, frames, delivery, save, file_after_load,
                   persist_failed>>

\* the wait after the exception returns True: break
SchedCooldownShutdown ==
    /\ pc = "cooldown"
    /\ shutdown_event
    /\ pc' = "stopped"
    /\ UNCHANGED <<clock, cfg, sched, exception, file, temp, orphans, run_time,
                   sent_events, frames, delivery, save, file_after_load,
                   persist_failed>>

\* the steps of one call of main() and of the save_sent_events it calls,
\* failures included
SchedRun ==
    \/ Load \/ LoadExcept \/ Query \/ QueryFail \/ Validate \/ TypeStatus
    \/ Filter \/ Route \/ Render
    \/ SendInternal \/ SendProminence \/ SendSeatraders \/ SendSpecial
    \/ SendTeams \/ Commit \/ MainExcept \/ RunEnd
    \/ SaveMkstemp \/ SaveWriteBegin \/ SaveWriteEnd \/ SaveMove \/ SaveReturn
    \/ SaveMkstempFail \/ SaveInnerFail \/ SaveInnerExcept \/ SaveOuterExcept

\* the steps of the loop around main()
SchedLoop ==
    \/ SchedWhile \/ SchedAfterMain \/ SchedSleepTimeout \/ SchedSleepShutdown
    \/ ExceptClauseRaises \/ SchedExcept
    \/ SchedCooldownTimeout \/ SchedCooldownShutdown

SchedNext == SchedRun \/ SchedLoop \/ Signal \/ SchedTick

\* the e-mail deployment with a window of one tick, started by
\* "python events_alerts.py" on no file or on a corrupt file
SchedConfigs ==
    {c \in ConfiguredConfigs :
        c.ENABLE_EMAIL_ALERTS /\ c.REMINDER_FREQUENCY_DAYS = 1}

SchedFiles == {MissingFile, BadJsonFile}

InitScheduler ==
    /\ clock = 0
    /\ cfg \in SchedConfigs
    /\ file \in SchedFiles
    /\ temp = NoTemp
    /\ orphans = FALSE
    /\ pc = "sched_while"
    /\ run_time = 0
    /\ sent_events = EmptyDict
    /\ df = NoFrame
    /\ original_count = 0
    /\ df_prominence = NoFrame
    /\ df_seatraders = NoFrame
    /\ event_ids = NoEventIds
    /\ flags = NoFlags
    /\ outcome = NoOutcome
    /\ committed = {}
    /\ save = NoSave
    /\ file_after_load = MissingFile
    /\ persist_failed = FALSE
    /\ exception = "none"
    /\ shutdown_event = FALSE
    /\ wait_until = 0
    /\ started_at = -1
    /\ returned_at = -1

SpecScheduler == InitScheduler /\ [][SchedNext]_vars

\* the last tick of a fair scheduler behaviour
MaxFairTime == 3

\* time passes while the scheduler waits
WaitTick ==
    /\ pc \in {"sleeping", "cooldown"}
    /\ clock < MaxFairTime
    /\ SchedTick

\* the steps of one call of main() with working storage
SchedRunStored ==
    \/ Load \/ Query \/ QueryFail \/ Validate \/ TypeStatus
    \/ Filter \/ Route \/ Render
    \/ SendInternal \/ SendProminence \/ SendSeatraders \/ SendSpecial
    \/ SendTeams \/ Commit \/ MainExcept \/ RunEnd
    \/ SaveMkstemp \/ SaveWriteBegin \/ SaveWriteEnd \/ SaveMove \/ SaveReturn

SchedFairNext == SchedRunStored \/ SchedLoop \/ Signal \/ WaitTick

InitSchedulerFair == InitScheduler /\ file = MissingFile

\* the interpreter keeps executing the thread that runs the loop; signals
\* and the passing of time are left to the environment
SpecSchedulerFair ==
    /\ InitSchedulerFair
    /\ [][SchedFairNext]_vars
    /\ WF_vars(SchedRunStored \/ SchedLoop)

(* ======================= properties ==================================== *)
ids_of(d) == {r.id : r \in Range(d.rows)}

\* the ids in the batch of a delivery attempt of the current run
Batch(a) ==
    CASE a = "prominence" -> ids_of(df_prominence)
      [] a = "seatraders" -> ids_of(df_seatraders)
      [] OTHER -> ids_of(df)

\* the attempts whose send_* call returned / transmitted / raised
Returned == {a \in Attempts : outcome[a] \in {"sent", "skipped"}}
Transmitted == {a \in Attempts : outcome[a] = "sent"}
Raised == {a \in Attempts : outcome[a] = "raised"}

\* the attempts main() has to make for the current batches
Due(a) ==
    CASE a = "internal" -> cfg.ENABLE_EMAIL_ALERTS
      [] a = "prominence" -> cfg.ENABLE_EMAIL_ALERTS /\ ~empty(df_prominence)
      [] a = "seatraders" -> cfg.ENABLE_EMAIL_ALERTS /\ ~empty(df_seatraders)
      [] a = "special" -> cfg.ENABLE_SPECIAL_TEAMS_EMAIL_ALERT
      [] OTHER -> cfg.ENABLE_TEAMS_ALERTS

\* the file is not a JSON object, or one of its sent_events keys is no integer
Malformed(f) ==
    \/ f.kind \in {"badjson", "notdict"}
    \/ f.kind = "dict" /\ \E k \in DOMAIN f.sent_events : k \notin {str(i) : i \in Ids}

\* the ids with an entry in the file that is not older than the window at `now`
Unexpired(f, now, days) ==
    {i \in Ids : /\ f.kind = "dict"
                 /\ str(i) \in DOMAIN f.sent_events
                 /\ f.sent_events[str(i)].valid
                 /\ f.sent_events[str(i)].t >= now - days}

\* the store the next call of load_sent_events returns for file f at `now`,
\* its re-persist succeeding
NextLoad(f, now, days) ==
    IF f.kind = "missing" THEN EmptyDict
    ELSE LoadParse(f, now, days).filtered_events

\* C1: while the tracking file is well formed and no persist of the run has
\* failed, no delivery attempt of the run contains an id that has an entry
\* in the tracking file which is not expired; such an id is delivered again
\* only once its entry is gone.
C1_NoDuplicateNotification ==
    (pc \in SendPcs \cup {"commit"} /\ ~persist_failed /\ ~Malformed(file))
        => \A a \in Attempts :
              outcome[a] # "none"
                 => Batch(a) \cap Unexpired(file, clock, cfg.REMINDER_FREQUENCY_DAYS) = {}

C1_Witness ==
    /\ pc = "commit"
    /\ ~persist_failed /\ ~Malformed(file)
    /\ Transmitted # {}
    /\ Unexpired(file, clock, cfg.REMINDER_FREQUENCY_DAYS) # {}

\* C2: every id a run commits was in the batch of a delivery attempt of that
\* run which transmitted a message and succeeded.
C2_CommittedWereTransmitted ==
    \A i \in committed : \E a \in Transmitted : i \in Batch(a)

\* C3: once the delivery attempts of a run are over, the committed id set is
\* the union of the batches of the attempts that succeeded (internal, special
\* Teams e-mail and Teams webhook carry the whole filtered batch, prominence
\* and seatraders their group); one success among failures gives a non-empty
\* set and the run does not end in an error handler.
C3_CommittedIsUnionOfSucceeded ==
    pc \notin SendPcs \cup {"commit"}
        => /\ committed = UNION {Batch(a) : a \in Returned}
           /\ (Returned # {} => committed # {} /\ pc # "main_except")

C3_Witness ==
    /\ pc = "done"
    /\ outcome["internal"] = "raised"
    /\ outcome["prominence"] = "sent"
    /\ outcome["seatraders"] = "raised"
    /\ committed # {}
    /\ committed # ids_of(df)

\* C4: a run whose delivery attempts all raised (or that made none) commits
\* nothing and writes nothing after load: the file is the one load left, and
\* the next run's filter returns the same candidates for the same query
\* result (at least the same ones when time has passed in between).
C4_AllFailedNothingPersisted ==
    (pc = "done" /\ Returned = {})
        => /\ committed = {}
           /\ save.caller # "main"
           /\ file = file_after_load
           /\ \A q \in QueryResults :
                /\ filter_unsent_events(q, NextLoad(file, clock, cfg.REMINDER_FREQUENCY_DAYS))
                      = filter_unsent_events(q, sent_events)
                /\ \A t \in clock..MaxTime :
                      ids_of(filter_unsent_events(q, sent_events))
                         \subseteq ids_of(filter_unsent_events(q,
                                      NextLoad(file, t, cfg.REMINDER_FREQUENCY_DAYS)))

C4_Witness ==
    /\ pc = "done"
    /\ Raised # {}
    /\ Returned = {}
    /\ sent_events # EmptyDict
    /\ file.kind = "dict"

\* C5: a send_* call that raises stops neither the later attempts nor the
\* commit: every attempt that is due has been made when the delivery stage
\* is over, the run is not in an error handler, and the ids of every attempt
\* that returned are committed.
C5_AttemptsAreIndependent ==
    (Raised # {} /\ pc \notin SendPcs)
        => /\ \A a \in Attempts : Due(a) => outcome[a] # "none"
           /\ pc # "main_except"
           /\ (pc # "commit" => \A a \in Returned : Batch(a) \subseteq committed)

C5_Witness ==
    /\ pc = "done"
    /\ outcome["internal"] = "raised"
    /\ outcome["special"] = "raised"
    /\ outcome["teams"] = "sent"
    /\ committed = ids_of(df)


\* C6: whenever the process is inside save_sent_events, and whenever it has
\* crashed there, the tracking file holds either the complete content it had
\* before the call or the complete new document.
C6_CrashSafePersist ==
    ((pc \in SavePcs \/ pc = "crashed") /\ save.caller # "none")
        => file \in {save.before, SavedDocument(save.arg)}

C6_Witness ==
    /\ pc = "crashed"
    /\ save.caller = "main"
    /\ temp.state = "partial"
    /\ file = save.before
    /\ file # SavedDocument(save.arg)

\* C7: a step of save_sent_events that fails ends in the caller's exception
\* handler, and there the file is the one from before the call and no
\* temporary file of the call exists.
C7_FailedSaveLeavesNoTrace ==
    /\ (save.failed # "none"
           /\ pc \notin {"save_inner_except", "save_outer_except", "crashed"})
          => persist_failed
    /\ (persist_failed /\ pc \in {"load_except", "main_except"})
          => (file = save.before /\ temp.state = "none")

C7_Witness ==
    /\ pc = "main_except"
    /\ persist_failed
    /\ save.caller = "main"
    /\ save.failed = "move"
    /\ file = save.before
    /\ file # SavedDocument(save.arg)

\* C8: once save_sent_events has raised in a run, the run is over: it is in
\* an exception handler or has returned, it does not go on to query, deliver
\* or commit.
C8_PersistFailureEndsRun ==
    persist_failed => pc \in {"load_except", "main_except", "done"}

\* C9: load_sent_events on a missing or malformed file (not JSON, not an
\* object, a non-integer key) leaves the file as it is, creates no file, and
\* returns to main() only with the empty store, never through an exception.
C9_LoadFailsSoft ==
    [][(pc \in {"load", "load_except"} /\ (file.kind = "missing" \/ Malformed(file)))
          => /\ file' = file
             /\ temp' = temp
             /\ pc' \in {"load", "load_except", "query", "crashed"}
             /\ (pc' = "query" => sent_events' = EmptyDict)]_vars

C9_Witness ==
    /\ pc = "query"
    /\ file = NonIntKeyFile
    /\ sent_events = EmptyDict
    /\ ~persist_failed

\* C10: the store load_sent_events computes from a well-formed file keeps an
\* entry with a valid timestamp if and only if the timestamp is at or after
\* now - REMINDER_FREQUENCY_DAYS.
C10_PruneBoundary ==
    [][(pc = "load" /\ pc' \in {"query", "save_mkstemp"}
           /\ file.kind = "dict" /\ ~Malformed(file)
           /\ "sent_events" \in file.keys)
          => LET result == IF pc' = "query" THEN sent_events' ELSE save'.arg
             IN  \A i \in Ids :
                   (str(i) \in DOMAIN file.sent_events
                       /\ file.sent_events[str(i)].valid)
                     => (i \in DOMAIN result
                           <=> file.sent_events[str(i)].t
                                  >= clock - cfg.REMINDER_FREQUENCY_DAYS)]_vars

C10_Witness ==
    /\ pc = "save_mkstemp"
    /\ save.caller = "load"
    /\ \E i \in DOMAIN save.arg :
          save.arg[i].t = clock - cfg.REMINDER_FREQUENCY_DAYS
    /\ \E k \in DOMAIN file.sent_events :
          /\ file.sent_events[k].valid
          /\ file.sent_events[k].t = clock - cfg.REMINDER_FREQUENCY_DAYS - 1

\* C11: the pruning loop of load_sent_events drops every entry whose
\* timestamp cannot be parsed and keeps, with its value, every other entry
\* of the file whose timestamp is valid and not expired; the unparseable
\* entry does not send load into its exception handler.
C11_InvalidEntriesDropped ==
    [][(/\ pc = "load"
        /\ file.kind = "dict" /\ ~Malformed(file)
        /\ \E k \in DOMAIN file.sent_events : ~file.sent_events[k].valid)
          => /\ pc' \in {"load", "save_mkstemp", "crashed"}
             /\ pc' = "save_mkstemp"
                  => \A i \in Ids :
                       str(i) \in DOMAIN file.sent_events
                         => LET v == file.sent_events[str(i)]
                            IN  /\ ~v.valid => i \notin DOMAIN save'.arg
                                /\ (v.valid
                                      /\ v.t >= clock - cfg.REMINDER_FREQUENCY_DAYS)
                                     => (i \in DOMAIN save'.arg /\ save'.arg[i] = v)]_vars

C11_Witness ==
    /\ pc = "save_mkstemp"
    /\ save.caller = "load"
    /\ file = InvalidTimestampFile
    /\ DOMAIN save.arg = Ids \ {1}

\* C12: when the file holds an entry that is invalid or expired,
\* load_sent_events calls save_sent_events with the pruned store before it
\* returns, and when that call has returned the file is the document of
\* exactly the returned entries, none of them expired; when the file holds
\* no such entry, load returns without touching the file, a temporary file
\* or save_sent_events.
C12_PruneIsPersisted ==
    [][/\ (pc = "load" /\ file.kind = "dict" /\ ~Malformed(file))
          => IF \E k \in DOMAIN file.sent_events :
                  \/ ~file.sent_events[k].valid
                  \/ file.sent_events[k].t < clock - cfg.REMINDER_FREQUENCY_DAYS
             THEN /\ pc' \in {"load", "save_mkstemp", "crashed"}
                  /\ pc' = "save_mkstemp" => save'.caller = "load"
             ELSE /\ pc' \in {"load", "query", "crashed"}
                  /\ file' = file /\ temp' = temp
                  /\ pc' = "query" => save' = NoSave
       /\ (pc = "save_return" /\ save.caller = "load" /\ pc' = "query")
          => /\ file' = SavedDocument(sent_events')
             /\ DOMAIN file'.sent_events = {str(i) : i \in DOMAIN sent_events'}
             /\ \A k \in DOMAIN file'.sent_events :
                  /\ file'.sent_events[k].valid
                  /\ file'.sent_events[k].t >= clock - cfg.REMINDER_FREQUENCY_DAYS]_vars

C12_Witness ==
    /\ pc = "query"
    /\ save.caller = "load"
    /\ ~persist_failed
    /\ sent_events # EmptyDict
    /\ file = SavedDocument(sent_events)
    /\ file # save.before

\* C13: load_sent_events on a legacy file (a sent_event_ids list, no
\* sent_events mapping) computes the store with one entry per listed id
\* stamped with the load time, and does not return before the file has been
\* rewritten as the current-format document of that store.
C13_LegacyIsMigrated ==
    [][(/\ pc = "load"
        /\ file.kind = "dict"
        /\ "sent_events" \notin file.keys
        /\ "sent_event_ids" \in file.keys)
          => LET store == [i \in Range(file.sent_event_ids) |-> isoformat(clock)]
             IN  /\ pc' \in {"load", "query", "save_mkstemp", "crashed"}
                 /\ pc' = "save_mkstemp" => save'.arg = store
                 /\ pc' = "query"
                      => /\ sent_events' = store
                         /\ file' = SavedDocument(store)]_vars

\* C14: for every candidate batch with an id column and every store,
\* filter_unsent_events returns rows whose ids are disjoint from the store's
\* keys, that together with the tracked candidate ids make up the candidate
\* ids, and that are the untracked candidates in their original order.
C14_FilterPartitions ==
    [][(pc = "filter" /\ pc' \in {"route", "done"} /\ "id" \in df.columns)
          => LET Unsent(r) == r.id \notin DOMAIN sent_events
             IN  /\ ids_of(df') \cap DOMAIN sent_events = {}
                 /\ ids_of(df') \cup (ids_of(df) \cap DOMAIN sent_events) = ids_of(df)
                 /\ df'.rows = SelectSeq(df.rows, Unsent)
                 /\ df'.columns = df.columns]_vars

C14_Witness ==
    /\ pc = "route"
    /\ "id" \in df.columns
    /\ DOMAIN sent_events = {1}
    /\ original_count = 3
    /\ df.rows = <<RowOf(3), RowOf(2)>>

\* the stores over integer ids with valid timestamps
ValidStores ==
    UNION {[S -> {isoformat(t) : t \in 0..MaxTime}] : S \in SUBSET Ids}

\* C15: for every store S of integer ids whose timestamps are valid and not
\* expired, load_sent_events on the document save_sent_events writes for S
\* returns S, keys and timestamps, and leaves the file and the data directory
\* as they are.
C15_RoundTrip ==
    [][\A S \in ValidStores :
          (/\ pc = "load"
           /\ file = SavedDocument(S)
           /\ \A i \in DOMAIN S : S[i].t >= clock - cfg.REMINDER_FREQUENCY_DAYS)
             => /\ pc' \in {"load", "query", "crashed"}
                /\ file' = file /\ temp' = temp
                /\ pc' = "query" => (sent_events' = S /\ save' = NoSave)]_vars

C15_Witness ==
    /\ pc = "query"
    /\ save = NoSave
    /\ clock > 0
    /\ file = SavedDocument(sent_events)
    /\ \E i, j \in DOMAIN sent_events : sent_events[i].t < sent_events[j].t

\* C16: when load_sent_events has returned, loading the file again at the
\* same clock with the same window returns the same store, removes nothing
\* and therefore writes nothing.
C16_PruneIdempotent ==
    (pc = "query" /\ ~persist_failed)
        => /\ NextLoad(file, clock, cfg.REMINDER_FREQUENCY_DAYS) = sent_events
           /\ file.kind # "missing"
                => LoadParse(file, clock, cfg.REMINDER_FREQUENCY_DAYS).removed_count = 0

C16_Witness ==
    /\ pc = "query"
    /\ ~persist_failed
    /\ save.caller = "load"
    /\ save.before = InvalidTimestampFile
    /\ DOMAIN sent_events = Ids \ {1}
    /\ file = SavedDocument(sent_events)

\* C17: a non-empty query result lacking a required column takes main() from
\* validation into its exception handler and from there to its return: no
\* send_* call has been made, nothing is committed, save_sent_events is not
\* called from main() and the file stays as load left it, until the scheduler
\* starts the next run; an empty query result passes validation whatever its
\* columns.
C17_ValidationAbortsRun ==
    [][/\ (pc = "validate" /\ ~empty(df) /\ ~(required_columns \subseteq df.columns))
          => pc' \in {"main_except", "crashed"}
       /\ (pc = "validate" /\ empty(df))
          => pc' \in {"type_status", "crashed"}
       /\ (/\ pc \in {"main_except", "done"}
           /\ original_count = 0
           /\ ~empty(df) /\ ~(required_columns \subseteq df.columns))
          => /\ outcome = NoOutcome
             /\ committed = {}
             /\ save.caller # "main"
             /\ file = file_after_load
             /\ file' = file
             /\ pc' = (IF pc = "main_except" THEN "done" ELSE "idle")
                  \/ pc' = "crashed"]_vars

C17_Witness ==
    /\ pc = "done"
    /\ original_count = 0
    /\ ~empty(df)
    /\ "id" \notin df.columns
    /\ sent_events # EmptyDict
    /\ outcome = NoOutcome
    /\ file = file_after_load

\* C18: for a candidate batch without an id column, filter_unsent_events
\* returns the batch as it is, whatever the store holds.
C18_NoIdColumnKeepsAll ==
    [][(pc = "filter" /\ pc' \in {"route", "done"} /\ "id" \notin df.columns)
          => df' = df]_vars

\* every row of the batch is of an event the store tracks, and all are
\* returned
C18_Witness ==
    /\ pc = "route"
    /\ "id" \notin df.columns
    /\ original_count = MaxLen
    /\ Len(df.rows) = MaxLen
    /\ ids_of(df) \subseteq DOMAIN sent_events

\* C19: when the query result is empty or every id in it is tracked, the
\* filter step ends the run: main() returns from there without having made a
\* send_* call, without commit and without a save call, the file as load
\* left it; the two cases leave the same state but for the row count that is
\* logged.
C19_NothingUnsentEndsRun ==
    [][/\ (/\ pc = "filter" /\ pc' \in {"route", "done"}
           /\ \/ empty(df)
              \/ "id" \in df.columns /\ ids_of(df) \subseteq DOMAIN sent_events)
          => /\ pc' = "done"
             /\ empty(df')
             /\ UNCHANGED <<file, temp, sent_events, df_prominence, df_seatraders,
                            delivery, save, file_after_load, persist_failed>>
       /\ (pc = "done" /\ empty(df))
          => /\ outcome = NoOutcome
             /\ committed = {}
             /\ save.caller # "main"
             /\ file = file_after_load
             /\ file' = file
             /\ pc' \in {"idle", "crashed"}]_vars

C19_Witness ==
    /\ pc = "done"
    /\ empty(df)
    /\ original_count = MaxId
    /\ DOMAIN sent_events = Ids
    /\ outcome = NoOutcome
    /\ file = file_after_load

\* the groups whose name occurs in a routing key, letter case ignored
GroupsNamedIn(email) ==
    CASE email = "Ops@Prominence.gr" -> {"prominence"}
      [] email = "crew@seatraders.com" -> {"seatraders"}
      [] email = "prominence@SEATRADERS.com" -> {"prominence", "seatraders"}
      [] email = "agent@example.com" -> {}
      [] email = NullEmail -> {}

\* C20: the routing step puts a filtered candidate in the prominence batch
\* iff its email names prominence and in the seatraders batch iff it names
\* seatraders, letter case ignored, each group on its own; the internal batch
\* keeps every filtered candidate, and each group batch is part of it.
C20_RoutingIndependent ==
    [][(pc = "route" /\ pc' = "render")
          => LET InProminence(r) == "prominence" \in GroupsNamedIn(r.email)
                 InSeatraders(r) == "seatraders" \in GroupsNamedIn(r.email)
             IN  /\ df_prominence'.rows = SelectSeq(df.rows, InProminence)
                 /\ df_seatraders'.rows = SelectSeq(df.rows, InSeatraders)
                 /\ df'.rows = df.rows
                 /\ ids_of(df_prominence') \subseteq ids_of(df')
                 /\ ids_of(df_seatraders') \subseteq ids_of(df')]_vars

C20_Witness ==
    /\ pc = "render"
    /\ df.rows = <<RowOf(4), RowOf(3), RowOf(1)>>
    /\ df_prominence.rows = <<RowOf(4), RowOf(1)>>
    /\ df_seatraders.rows = <<RowOf(4)>>

\* the program points of main() between the return of load_sent_events and
\* the commit
AfterLoadPcs ==
    {"query", "validate", "type_status", "filter", "route", "render"} \cup SendPcs

\* C21: from the return of load_sent_events to the commit neither the store
\* nor the file changes; the commit hands save_sent_events the loaded store
\* plus one entry per committed id stamped with the run's run_time, without
\* writing the file itself; and when that one save call has returned the file
\* is the document of exactly that store.
C21_CommitAddsDelivered ==
    [][/\ (pc \in AfterLoadPcs /\ pc' # "crashed")
          => (sent_events' = sent_events /\ file' = file /\ save' = save)
       /\ (pc = "commit" /\ pc' = "save_mkstemp")
          => /\ committed' # {}
             /\ save'.caller = "main"
             /\ save'.arg = [i \in DOMAIN sent_events \cup committed' |->
                               IF i \in committed' THEN isoformat(run_time)
                               ELSE sent_events[i]]
             /\ file' = file
       /\ (pc = "commit" /\ pc' = "done")
          => (committed' = {} /\ sent_events' = sent_events /\ file' = file)
       /\ (pc = "save_return" /\ save.caller = "main" /\ pc' = "done")
          => /\ file' = SavedDocument(save.arg)
             /\ sent_events' = save.arg]_vars

C21_Witness ==
    /\ pc = "done"
    /\ save.caller = "main"
    /\ ~persist_failed
    /\ committed = {2}
    /\ DOMAIN sent_events = {1, 2}
    /\ sent_events[1] = isoformat(0)
    /\ run_time = 1
    /\ sent_events[2] = isoformat(1)
    /\ file = SavedDocument(sent_events)

(* ---------------- C22 --------------------------------------------------- *)
\* C22: runs never overlap. main() is called only from the top of the loop,
\* when no call is in progress (its locals are those of a finished call),
\* shutdown was not requested, and, if the previous call returned, at least
\* SCHEDULE_FREQUENCY has passed since it returned, however long that call
\* lasted.
C22_RunsNeverOverlap ==
    [][(pc' = "load" /\ pc # "load") =>
          /\ pc = "sched_while"
          /\ ~shutdown_event
          /\ save = NoSave /\ outcome = NoOutcome /\ committed = {}
          /\ started_at' = clock
          /\ returned_at >= 0 =>
                /\ started_at <= returned_at
                /\ clock >= returned_at + SCHEDULE_FREQUENCY]_vars

\* the first run lasted three ticks, longer than the interval of two; the
\* sleep of two ticks after its return is over and the second run is due
C22_Witness ==
    /\ pc = "sched_while" /\ ~shutdown_event
    /\ started_at = 0 /\ returned_at = 3 /\ clock = 5
    /\ returned_at - started_at > SCHEDULE_FREQUENCY

(* ---------------- C23 --------------------------------------------------- *)
\* C23: a shutdown signal only sets the flag, wherever it arrives; a run in
\* progress goes on to its own steps and leaves only by returning (or by an
\* exception of its own), never by the flag; the scheduler stops only with
\* the flag set and only from the points between runs: after main()
\* returned, in a wait, at the top of the loop.
C23_SignalOnlySetsFlag ==
    [][/\ shutdown_event' # shutdown_event =>
             /\ shutdown_event'
             /\ UNCHANGED <<clock, cfg, wait_until, started_at, returned_at,
                            exception, file, temp, orphans, pc, run_time,
                            sent_events, frames, delivery, save,
                            file_after_load, persist_failed>>
       /\ pc \in RunPcs => pc' \in RunPcs \cup {"idle", "sched_except"}
       /\ (pc' = "stopped" /\ pc # "stopped") =>
             /\ shutdown_event
             /\ pc \in {"idle", "sleeping", "cooldown", "sched_while"}]_vars

\* the flag was set before main() returned, and the run has committed and
\* persisted event 1
C23_Witness ==
    /\ shutdown_event /\ pc = "done"
    /\ committed = {1} /\ save.caller = "main" /\ ~persist_failed
    /\ 1 \in DOMAIN sent_events /\ file = SavedDocument(sent_events)

(* ---------------- C24 --------------------------------------------------- *)
\* C24: once the flag is set the scheduler eventually stops. With the flag
\* set no run is started and no wait is begun; a wait in progress is left
\* only by stopping, whatever is left of its timeout; a run in progress goes
\* on to its return, after which the scheduler stops without sleeping.
C24_ShutdownStops ==
    /\ shutdown_event ~> pc = "stopped"
    /\ [][shutdown_event =>
             /\ ~(pc' = "load" /\ pc # "load")
             /\ pc' \in {"sleeping", "cooldown"} => pc' = pc
             /\ pc \in {"sleeping", "cooldown", "idle"} =>
                   pc' \in {pc, "stopped"}
             /\ pc \in RunPcs => pc' \in RunPcs \cup {"idle", "sched_except"}]_vars

\* stopped during the sleep that followed a run, before its timeout
C24_Witness ==
    /\ pc = "stopped" /\ shutdown_event
    /\ returned_at >= 0
    /\ wait_until = returned_at + SCHEDULE_FREQUENCY
    /\ clock < wait_until

(* ---------------- C25 --------------------------------------------------- *)
\* C25: a failure inside a run never reaches the loop. A run is left only by
\* the return of main(); the exception of a failed step is pending only at
\* the except clauses of main(), one of which handles it, after which main()
\* returns and, unless shutdown was requested, the loop sleeps one interval.
\* (What leaves main() another way is an exception raised by the except
\* clauses themselves, which is a different exception.)
C25_FailuresCaughtAtRunBoundary ==
    [][/\ (pc \in RunPcs \ {"main_except"}) => pc' \in RunPcs \cup {"idle"}
       /\ (pc = "main_except" /\ pc' # pc) =>
             \/ pc' = "done" /\ exception' = "none"
             \/ exception' \notin {exception, "none"}
       /\ (pc' = "main_except" /\ pc # pc') =>
             /\ pc \in RunPcs
             /\ exception' \in QueryExceptions
                    \cup {"ValueError", "PermissionError", "OSError"}
       /\ (pc = "done" /\ pc' # pc) => pc' = "idle"
       /\ (pc = "idle" /\ pc' # pc /\ ~shutdown_event) =>
             pc' = "sleeping" /\ wait_until' = clock + SCHEDULE_FREQUENCY]_vars

\* the persist of a commit failed; the exception was handled by an except
\* clause and main() is about to return
C25_Witness ==
    /\ pc = "done" /\ exception = "none"
    /\ persist_failed /\ save.caller = "main" /\ committed # {}
    /\ ~shutdown_event

(* ---------------- C26 --------------------------------------------------- *)
\* C26: an exception that reaches the loop does not end it. Unless shutdown
\* was requested the loop waits RetryWait from the moment it caught the
\* exception and starts the next run only when that wait has timed out; with
\* shutdown requested before the wait it goes to the loop condition, which
\* stops it, and with shutdown requested during the wait it stops from the
\* wait; neither starts another run.
C26_EscapedExceptionCoolsDown ==
    [][/\ (pc = "sched_except" /\ pc' # pc) =>
             IF shutdown_event
             THEN pc' = "sched_while"
             ELSE pc' = "cooldown" /\ wait_until' = clock + RetryWait
       /\ (pc = "cooldown" /\ pc' # pc) =>
             IF shutdown_event
             THEN pc' = "stopped"
             ELSE pc' = "sched_while" /\ clock >= wait_until
       /\ (pc = "sched_while" /\ pc' # pc /\ shutdown_event) => pc' = "stopped"
       /\ (pc = "sched_while" /\ pc' = "load"
              /\ started_at >= 0 /\ returned_at = -1) =>
             /\ ~shutdown_event
             /\ clock >= wait_until
             /\ wait_until >= started_at + RetryWait]_vars

\* the second run started at 2 and an exception left it at 3; the wait of one
\* tick is over and the loop is about to start the third run
C26_Witness ==
    /\ pc = "sched_while" /\ ~shutdown_event
    /\ started_at = 2 /\ returned_at = -1
    /\ wait_until = 4 /\ clock = 4

(* ---------------- C27 --------------------------------------------------- *)
\* C27: with --dry-run the three switches are off; no send_* call is made,
\* no flag is set, nothing is committed and main() never calls
\* save_sent_events; the tracking file changes only by the save that
\* load_sent_events makes after pruning.
C27_DryRunDeliversNothing ==
    [][/\ ~cfg.ENABLE_EMAIL_ALERTS /\ ~cfg.ENABLE_SPECIAL_TEAMS_EMAIL_ALERT
       /\ ~cfg.ENABLE_TEAMS_ALERTS
       /\ outcome' = NoOutcome /\ flags' = NoFlags /\ committed' = {}
       /\ save'.caller # "main"
       /\ file' # file => save.caller = "load"
       /\ pc \in AfterLoadPcs \cup {"commit"} => sent_events' = sent_events]_vars

\* a dry run over an expired entry and two new events, one of them routed to
\* Prominence: pruned, queried, filtered, routed and rendered, at its commit
\* step with nothing attempted
C27_Witness ==
    /\ pc = "commit"
    /\ outcome = NoOutcome /\ flags = NoFlags
    /\ Len(event_ids.internal) = 2 /\ event_ids.prominence = <<1>>
    /\ sent_events = EmptyDict /\ file = SavedDocument(EmptyDict)
    /\ save.caller = "load" /\ save.before # file
    /\ file_after_load = file

(* ---------------- C28 --------------------------------------------------- *)
\* nothing was attempted or committed, main() has not called
\* save_sent_events and the file is the one load left
NothingCommitted ==
    /\ committed = {} /\ outcome = NoOutcome
    /\ save.caller # "main"
    /\ file = file_after_load

\* a load of the file gives the filter the same untracked candidates as this
\* run's store, for every query result (at least the same ones when time has
\* passed)
SameCandidatesNextRun ==
    \A q \in QueryResults :
         /\ filter_unsent_events(q, NextLoad(file, clock, cfg.REMINDER_FREQUENCY_DAYS))
               = filter_unsent_events(q, sent_events)
         /\ \A t \in clock..MaxTime :
               ids_of(filter_unsent_events(q, sent_events))
                  \subseteq ids_of(filter_unsent_events(q,
                               NextLoad(file, t, cfg.REMINDER_FREQUENCY_DAYS)))

\* C28: when the connection, the SQL file or a query fails, the run goes to
\* the except clauses with nothing attempted and nothing committed, and from
\* there to its return without touching the store or the file: the next run
\* loads the same file and, the load's own persist not having failed, its
\* filter returns the same candidates.
C28_TransientFailureCommitsNothing ==
    [][/\ (pc \in {"query", "type_status"} /\ pc' = "main_except") =>
             /\ exception' \in QueryExceptions
             /\ NothingCommitted'
             /\ ~persist_failed' => SameCandidatesNextRun'
       /\ (pc = "main_except" /\ pc' # "crashed") =>
             /\ pc' \in {"main_except", "done"}
             /\ UNCHANGED <<file, temp, sent_events, committed, outcome, save,
                            file_after_load>>
       /\ (pc = "done" /\ pc' # "crashed") =>
             /\ pc' \in {"done", "idle"}
             /\ UNCHANGED <<file, temp>>]_vars

\* a run that loaded a non-empty store and ended at the events query
C28_Witness ==
    /\ pc = "done" /\ df = NoFrame /\ ~persist_failed
    /\ sent_events # EmptyDict /\ file.kind = "dict"
    /\ NothingCommitted /\ SameCandidatesNextRun

(* ---------------- C29 --------------------------------------------------- *)
\* the stage of a run: 1 load tracking (with the save of the pruned store),
\* 2 query, 3 validate, 4 filter, 5 route and render, 6 deliver, 7 commit and
\* persist
Stage(p, caller) ==
    CASE p \in {"load", "load_except"} -> 1
      [] p \in SavePcs -> IF caller = "load" THEN 1 ELSE 7
      [] p = "query" -> 2
      [] p \in {"validate", "type_status"} -> 3
      [] p = "filter" -> 4
      [] p \in {"route", "render"} -> 5
      [] p \in SendPcs -> 6
      [] p = "commit" -> 7
      [] OTHER -> 0

\* the ids a tracking file names, as keys of sent_events or in the legacy list
ids_in_file(f) ==
    IF f.kind # "dict" THEN {}
    ELSE {i \in Ids : str(i) \in DOMAIN f.sent_events}
            \cup {i \in Ids : i \in Range(f.sent_event_ids)}

\* C29: a run goes through its stages in order, one at a time, and ends
\* only after an empty filter result, after the commit, or from an exception
\* handler. Delivery attempts are made only in the delivery stage, on the
\* filtered batch; main() calls save_sent_events only from the commit step,
\* when every due attempt has been made; and a write to the tracking file
\* adds no id that is not in the batch of an attempt that has returned.
C29_RunOrder ==
    [][/\ (pc \in RunPcs \ {"main_except", "done"}
              /\ pc' \in RunPcs \ {"main_except", "done"}) =>
             Stage(pc', save'.caller) \in
                {Stage(pc, save.caller), Stage(pc, save.caller) + 1}
       /\ (pc' = "done" /\ pc # "done") =>
             \/ pc = "filter" /\ empty(df')
             \/ pc = "commit" /\ committed' = {}
             \/ pc = "save_return" /\ save.caller = "main"
             \/ pc = "main_except"
       /\ outcome' # outcome =>
             \/ pc \in SendPcs /\ pc' \in SendPcs \cup {"commit"}
                   /\ original_count > 0
                   /\ ids_of(df) \cap DOMAIN sent_events = {}
             \/ outcome' = NoOutcome
       /\ (save'.caller = "main" /\ save.caller # "main") =>
             /\ pc = "commit"
             /\ \A a \in Attempts : Due(a) => outcome[a] # "none"
       /\ file' # file =>
             ids_in_file(file') \ ids_in_file(file)
                \subseteq UNION {Batch(a) : a \in Returned}]_vars

\* every attempt of a run was made, one raised and one returned, and the
\* commit wrote event 2 to the file next to the tracked event 1
C29_Witness ==
    /\ pc = "done" /\ save.caller = "main" /\ ~persist_failed
    /\ Raised # {} /\ Returned # {}
    /\ ids_in_file(save.before) = {1}
    /\ ids_in_file(file) = {1, 2}
    /\ committed = {2}

(* ---------------- C30 --------------------------------------------------- *)
\* C30: no pending event is lost. The file gets a new id only from the commit
\* of a run that holds it, so an id no run has committed is not in the file;
\* every candidate of a query result that the file does not name passes the
\* filter of that run, in every run; and a run whose delivery stage is over
\* eventually ends, and when it ends after its commit (the persist not
\* failing) the file names every id of every attempt that returned.
C30_NoSilentLoss ==
    /\ [][/\ file' # file =>
                ids_in_file(file') \ ids_in_file(file) \subseteq committed
          /\ (pc = "filter" /\ pc' \in {"route", "done"}) =>
                /\ ids_of(df) \ ids_in_file(file) \subseteq ids_of(df')
                /\ ids_of(df') # {} => pc' = "route"
          /\ (pc \in {"commit", "save_return"} /\ pc' = "done") =>
                \A a \in Returned : Batch(a) \subseteq ids_in_file(file')]_vars
    /\ pc = "commit" ~> pc = "done"

\* a later run found event 1 still untracked (the file did not exist, no
\* earlier run had committed anything), delivered it and recorded it
C30_Witness ==
    /\ pc = "done" /\ started_at >= SCHEDULE_FREQUENCY
    /\ save.caller = "main" /\ save.before = MissingFile
    /\ committed = {1} /\ ids_in_file(file) = {1}

(* ---------------- C31 --------------------------------------------------- *)
\* the order of the send_* calls in main()
AttemptOrder == <<"internal", "prominence", "seatraders", "special", "teams">>

\* the call made at a step of the delivery stage
AttemptAt(p) ==
    CASE p = "send_internal" -> "internal"
      [] p = "send_prominence" -> "prominence"
      [] p = "send_seatraders" -> "seatraders"
      [] p = "send_special" -> "special"
      [] OTHER -> "teams"

\* C31: a step of a run records at most one attempt, the one of the step's
\* place in the order internal, prominence, seatraders, special, teams; that
\* attempt had not been made before and none of the later ones has been made;
\* the group e-mails are attempted only for a non-empty group, and the three
\* others are attempted once each, when their switch is on, for the whole
\* filtered batch, which holds the rows of both groups.
C31_AttemptsOnceInOrder ==
    [][(outcome' # outcome /\ outcome' # NoOutcome) =>
          /\ pc \in SendPcs
          /\ \A n \in 1..Len(AttemptOrder) :
                LET a == AttemptOrder[n]
                IN  IF a = AttemptAt(pc)
                    THEN /\ outcome[a] = "none" /\ outcome'[a] # "none"
                         /\ \A m \in (n + 1)..Len(AttemptOrder) :
                               outcome[AttemptOrder[m]] = "none"
                         /\ Due(a)
                    ELSE outcome'[a] = outcome[a]
          /\ outcome'["prominence"] # "none" => ~empty(df_prominence)
          /\ outcome'["seatraders"] # "none" => ~empty(df_seatraders)
          /\ ids_of(df_prominence) \cup ids_of(df_seatraders) \subseteq ids_of(df)
          /\ Range(event_ids.internal) = ids_of(df)
          /\ pc' = "commit" =>
                \A a \in Attempts : (outcome'[a] # "none") <=> Due(a)]_vars

\* all five attempts of a run have been made, the last being the webhook
\* message, over a batch of two events, one of each group
C31_Witness ==
    /\ pc = "commit"
    /\ \A a \in Attempts : outcome[a] # "none"
    /\ ids_of(df_prominence) = {1} /\ ids_of(df_seatraders) = {2}
    /\ ids_of(df) = {1, 2}

(* ---------------- C32 --------------------------------------------------- *)
\* load_sent_events found a valid entry for i older than the window in a
\* well-formed file and called save_sent_events for the pruned store
ExpiredAtLoad(i) ==
    /\ save.caller = "load"
    /\ save.before.kind = "dict" /\ ~Malformed(save.before)
    /\ str(i) \in DOMAIN save.before.sent_events
    /\ save.before.sent_events[str(i)].valid
    /\ save.before.sent_events[str(i)].t < clock - cfg.REMINDER_FREQUENCY_DAYS

\* C32: after load the store holds no entry older than the window, and
\* neither does the file once the pruning save has succeeded; an event whose
\* entry was expired at load and that the query returns passes the filter of
\* the same run, which goes on to delivery; and when an attempt covering it
\* has returned the commit gives it a new entry stamped with this run's time,
\* which is not earlier than the old stamp.
C32_ReminderAfterExpiry ==
    [][/\ pc \in AfterLoadPcs \cup {"commit"} =>
             /\ \A i \in DOMAIN sent_events :
                   /\ sent_events[i].valid
                   /\ sent_events[i].t >= clock - cfg.REMINDER_FREQUENCY_DAYS
             /\ \A i \in Ids : ExpiredAtLoad(i) =>
                   /\ i \notin DOMAIN sent_events
                   /\ ~persist_failed => i \notin ids_in_file(file)
       /\ (pc = "filter" /\ pc' \in {"route", "done"}) =>
             \A i \in ids_of(df) : ExpiredAtLoad(i) =>
                   i \in ids_of(df') /\ pc' = "route"
       /\ (pc = "commit" /\ pc' \in {"save_mkstemp", "done"}) =>
             \A i \in ids_of(df) :
                (ExpiredAtLoad(i) /\ \E a \in Returned : i \in Batch(a)) =>
                   /\ pc' = "save_mkstemp"
                   /\ i \in committed'
                   /\ save'.arg[i] = isoformat(run_time)
                   /\ run_time >= save.before.sent_events[str(i)].t]_vars

\* event 1, tracked at 0 with a window of one tick, was pruned by the load
\* of a run at 2; the query returned it, it passed the filter and a message
\* with it was sent
C32_Witness ==
    /\ pc = "commit"
    /\ ExpiredAtLoad(1) /\ 1 \in ids_of(df)
    /\ \E a \in Transmitted : 1 \in Batch(a)
    /\ ~persist_failed /\ 1 \notin ids_in_file(file)

(* ---------------- C33 --------------------------------------------------- *)
\* C33: the commit adds only ids of the filtered batch that the loaded store
\* does not hold and hands save_sent_events every loaded entry with its
\* timestamp; and when the save of the commit replaces a well-formed tracking
\* file, every entry of the file it replaces that is valid and not older than
\* the window is in the new file with the same timestamp: an entry leaves the
\* file only by the pruning of load_sent_events or when the file read was
\* corrupt.
C33_CommitKeepsEntries ==
    [][/\ (pc = "commit" /\ pc' = "save_mkstemp") =>
             /\ committed' \subseteq ids_of(df)
             /\ committed' \cap DOMAIN sent_events = {}
             /\ \A i \in DOMAIN sent_events : save'.arg[i] = sent_events[i]
       /\ (file' # file /\ save.caller = "main"
             /\ file.kind = "dict" /\ ~Malformed(file)) =>
             \A i \in Unexpired(file, clock, cfg.REMINDER_FREQUENCY_DAYS) :
                 /\ str(i) \in DOMAIN file'.sent_events
                 /\ file'.sent_events[str(i)] = file.sent_events[str(i)]]_vars

(* ---------------- C34 --------------------------------------------------- *)
\* C34: when the save_sent_events call inside load_sent_events has failed,
\* load_sent_events returns the pruned store it tried to save, and the filter
\* of that run lets through no id that has an entry in it.
C34_FailedRepersistKeepsPrunedStore ==
    [][/\ (pc = "load_except" /\ persist_failed /\ save.caller = "load"
             /\ pc' = "query") => sent_events' = save.arg
       /\ (pc = "filter" /\ persist_failed /\ save.caller = "load"
             /\ pc' \in {"route", "done"}) =>
             ids_of(df') \cap DOMAIN save.arg = {}]_vars

(* ---------------- C35 --------------------------------------------------- *)
\* C35: run_time is read when main() is entered, before load_sent_events,
\* and does not change during the run; it is never later than the clock of
\* any later step of the run; the commit stamps every committed id with it;
\* and the file the commit's save writes holds, for every committed id, that
\* one timestamp, which is not later than the time of the write.
C35_SentAtIsRunStart ==
    [][/\ (pc = "idle" /\ pc' = "load") => run_time' = clock
       /\ (pc \in RunPcs /\ pc' \in RunPcs) => run_time' = run_time
       /\ pc \in RunPcs => run_time <= clock
       /\ (pc = "commit" /\ pc' = "save_mkstemp") =>
             \A i \in committed' : save'.arg[i] = isoformat(run_time)
       /\ (file' # file /\ save.caller = "main") =>
             /\ run_time <= clock
             /\ \A i \in committed :
                   /\ str(i) \in DOMAIN file'.sent_events
                   /\ file'.sent_events[str(i)] = isoformat(run_time)]_vars

\* a run whose load, delivery and commit happened after the clock had moved
\* on from run_time has written both events of its batch with run_time
C35_Witness ==
    /\ pc = "done" /\ committed = {1, 2}
    /\ run_time < clock
    /\ save.caller = "main" /\ save.failed = "none"
    /\ file.kind = "dict"
    /\ \A i \in committed : str(i) \in DOMAIN file.sent_events
                              /\ file.sent_events[str(i)] = isoformat(run_time)

(* ---------------- C36 --------------------------------------------------- *)
\* the file is a JSON object whose sent_events has a key int() rejects
HasNonIntKey(f) ==
    f.kind = "dict" /\ \E k \in DOMAIN f.sent_events : int_raises(k)

\* C36: while the tracking file has a non-integer key, load_sent_events
\* ends in its except clause and returns the empty store without touching
\* the file, whatever valid entries the file holds; the file is replaced only
\* by the rename of a save called from the commit, and the new file holds
\* exactly the ids that run committed, stamped with its run_time.
C36_NonIntKeyDiscardsStore ==
    [][HasNonIntKey(file) =>
          /\ (pc = "load" /\ pc' \notin {"load", "crashed"}) =>
                 pc' = "load_except" /\ file' = file /\ temp' = temp
          /\ (pc = "load_except" /\ pc' # "crashed") =>
                 pc' = "query" /\ sent_events' = EmptyDict /\ file' = file
          /\ file' # file =>
                 /\ pc = "save_move" /\ save.caller = "main"
                 /\ committed # {}
                 /\ committed \subseteq UNION {Batch(a) : a \in Returned}
                 /\ file' = SavedDocument([i \in committed |-> isoformat(run_time)])]_vars

\* a run that loaded the file with keys "1" and "abc" delivered event 2 only
\* and its commit replaced the file by one that holds event 2 only
C36_Witness ==
    /\ pc = "done"
    /\ save.caller = "main" /\ save.failed = "none"
    /\ save.before = NonIntKeyFile
    /\ committed = {2}
    /\ file = SavedDocument([i \in {2} |-> isoformat(run_time)])

(* ---------------- C37 --------------------------------------------------- *)
\* the ids with a key in the sent_events mapping of the file
mapping_ids(f) ==
    {i \in Ids : "sent_events" \in f.keys /\ str(i) \in DOMAIN f.sent_events}

\* C37: load_sent_events on a well-formed file computes a store whose ids are
\* among those of the sent_events mapping when the mapping is not empty,
\* whatever the sent_event_ids list holds; the ids of the list stamped with
\* the load time when the mapping is absent or empty and the list is there;
\* and nothing when neither is there. An id that is not in the store passes
\* the filter. Every file a save writes has exactly the keys sent_events
\* and last_updated.
C37_LegacyOnlyWithoutMapping ==
    [][/\ (pc = "load" /\ file.kind = "dict" /\ ~Malformed(file)
             /\ pc' \in {"query", "save_mkstemp"}) =>
             LET ret == IF pc' = "query" THEN sent_events' ELSE save'.arg
             IN  IF mapping_ids(file) # {}
                 THEN DOMAIN ret \subseteq mapping_ids(file)
                 ELSE IF "sent_event_ids" \in file.keys
                 THEN /\ DOMAIN ret = Range(file.sent_event_ids)
                      /\ \A i \in DOMAIN ret : ret[i] = isoformat(clock)
                 ELSE ret = EmptyDict
       /\ (pc = "filter" /\ pc' \in {"route", "done"}) =>
             ids_of(df) \ DOMAIN sent_events \subseteq ids_of(df')
       /\ file' # file =>
             /\ file'.kind = "dict"
             /\ file'.keys = {"sent_events", "last_updated"}
             /\ file'.sent_event_ids = <<>>]_vars

\* a run loaded the file whose mapping tracks event 1 and whose list names
\* events 1 and 2, delivered event 2 and wrote a file with the two keys and
\* both events in the mapping
C37_Witness ==
    /\ pc = "done"
    /\ save.caller = "main" /\ save.failed = "none"
    /\ save.before = MixedFile
    /\ committed = {2}
    /\ file.keys = {"sent_events", "last_updated"}
    /\ DOMAIN file.sent_events = {str(1), str(2)}

====
